---------------------------- MODULE Spec2Model ----------------------------
(***************************************************************************)
(* Model of the transformation orchestration pipeline of gradient_reading *)
(* (backend/services/transformer.py and its collaborators).               *)
(*                                                                         *)
(* Text is modelled by its structure.  A sentence is a record             *)
(* [id, off, w]: the words off+1 .. off+w of the sentence named id.  A    *)
(* paragraph (a "unit") is the sequence of its sentences, and a source    *)
(* text is the sequence of its blank-line separated blocks.  str.split()  *)
(* word counts are the sums of the w fields, and the sentence regex       *)
(* _SENT_SPLIT_RE yields the sentences of the sequence.                   *)
(*                                                                         *)
(* Two server processes share one database and one lock directory, and    *)
(* serve one project.  The build is the one where fcntl imports (line 38  *)
(* of transformer.py).  A commit is one atomic step; a coroutine runs     *)
(* without interruption between two awaits that suspend it.                *)
(***************************************************************************)
EXTENDS Integers, Sequences, FiniteSets, TLC

VARIABLES
    fnIn, fnOut, fnPc,   \* a pure function under check: argument, result, called/returned
    project,             \* the Project row: status, vocabulary, source text
    jobs,                \* TransformationJob rows by id
    chapters,            \* Chapter rows of the project by chapter_num (unique)
    nextJob,             \* the next fresh job id (uuid4)
    up,                  \* which server processes are running
    active,              \* ACTIVE_JOB_IDS of each process
    lock,                \* holders of the flock on transform-<project>.lock
    tasks,               \* the run_transformation_guarded coroutines
    starting,            \* processes whose start request is between its checks and its writes
    adapter,             \* the behaviour of the generative service in this history
    crashes              \* how many process crashes have happened

fnVars == <<fnIn, fnOut, fnPc>>

dbVars == <<project, jobs, chapters, nextJob>>

procVars == <<up, active, lock, tasks, starting, adapter, crashes>>

vars == <<fnIn, fnOut, fnPc, project, jobs, chapters, nextJob, up, active, lock, tasks,
          starting, adapter, crashes>>

-----------------------------------------------------------------------------
(* Program constants *)

MAX_CHUNK_WORDS == 250

MAX_CALL_WORDS == 900

CONTEXT_TAIL_WORDS == 140

MinUnits == 7

NumLevels == 7

\* LEVEL_SEGMENT_WEIGHTS in hundredths: [0.7, 0.8, 1.25, 1.3, 1.25, 0.95, 0.75]
LEVEL_SEGMENT_WEIGHTS == <<70, 80, 125, 130, 125, 95, 75>>

-----------------------------------------------------------------------------
(* Generic sequence helpers *)

\* F(x) with the argument evaluated once, before F is applied to it
Eager(F(_), x) == CHOOSE r \in {F(v) : v \in {x}} : TRUE

Min(a, b) == IF a < b THEN a ELSE b

Max(a, b) == IF a > b THEN a ELSE b

Abs(x) == IF x < 0 THEN -x ELSE x

RECURSIVE SumSeq(_)
SumSeq(s) == IF s = <<>> THEN 0 ELSE Head(s) + SumSeq(Tail(s))

RECURSIVE Flatten(_)
Flatten(ss) == IF ss = <<>> THEN <<>> ELSE Head(ss) \o Flatten(Tail(ss))

\* Python slice s[a:b] with 0-based bounds, clamped to the sequence
Slice(s, a, b) ==
    LET hi == Min(b, Len(s))
    IN  IF a >= hi THEN <<>> ELSE SubSeq(s, a + 1, hi)

RECURSIVE FilterNonEmpty(_)
FilterNonEmpty(s) ==
    IF s = <<>> THEN <<>>
    ELSE IF Head(s) = <<>> THEN FilterNonEmpty(Tail(s))
         ELSE <<Head(s)>> \o FilterNonEmpty(Tail(s))

-----------------------------------------------------------------------------
(* Text helpers *)

\* _word_count: len(text.split())
WordCount(unit) == SumSeq([i \in 1..Len(unit) |-> unit[i].w])

\* word count of a text made of several paragraphs joined by blank lines
WordCountAll(paras) == SumSeq([i \in 1..Len(paras) |-> WordCount(paras[i])])

\* split_into_paragraphs: blocks between blank lines, empty blocks dropped
SplitIntoParagraphs(text) == FilterNonEmpty(text)

-----------------------------------------------------------------------------
(* _expand_units_for_levels *)

\* the first unit with at least two sentences is taken, whatever its length
SplitIndexFirstSplittable(units) ==
    LET cand == {i \in 1..Len(units) : Len(units[i]) >= 2 /\ WordCount(units[i]) > 0}
    IN  IF cand = {} THEN 0
        ELSE CHOOSE i \in cand : \A k \in cand : i <= k

\* the unit the loop body selects: the longest one with at least two
\* sentences, the earliest on ties (strict > in the scan); 0 when none
SplitIndex(units) ==
    LET cand == {i \in 1..Len(units) : Len(units[i]) >= 2 /\ WordCount(units[i]) > 0}
    IN  IF cand = {} THEN 0
        ELSE CHOOSE i \in cand :
               \A k \in cand :
                  \/ WordCount(units[k]) < WordCount(units[i])
                  \/ (WordCount(units[k]) = WordCount(units[i]) /\ i <= k)

RECURSIVE ExpandLoop(_, _)
ExpandLoop(units, minUnits) ==
    IF Len(units) >= minUnits THEN units
    ELSE LET idx == SplitIndex(units)
         IN  IF idx = 0 THEN units
             ELSE LET sentences == units[idx]
                      mid == Len(sentences) \div 2
                      left == SubSeq(sentences, 1, mid)
                      right == SubSeq(sentences, mid + 1, Len(sentences))
                  IN  Eager(LAMBDA next : ExpandLoop(next, minUnits),
                            SubSeq(units, 1, idx - 1) \o <<left, right>>
                                \o SubSeq(units, idx + 1, Len(units)))

ExpandUnitsForLevels(paragraphs, minUnits) ==
    ExpandLoop(FilterNonEmpty(paragraphs), minUnits)

-----------------------------------------------------------------------------
(* _split_into_level_segments *)

\* n < 7: one unit per level while units last, then empty segments
SmallSegmentsDropLast(paragraphs) ==
    [level \in 1..NumLevels |->
        [level |-> level,
         paras |-> IF level < Len(paragraphs) THEN <<paragraphs[level]>> ELSE <<>>]]

SmallSegments(paragraphs) ==
    [level \in 1..NumLevels |->
        [level |-> level,
         paras |-> IF level <= Len(paragraphs) THEN <<paragraphs[level]>> ELSE <<>>]]

\* para_weights: word counts, all ones when the total is zero
ParaWeights(paragraphs) ==
    LET wc == [i \in 1..Len(paragraphs) |-> WordCount(paragraphs[i])]
    IN  IF SumSeq(wc) = 0 THEN [i \in 1..Len(paragraphs) |-> 1] ELSE wc

\* prefix[i] for i in 0..n
Prefix(pw, i) == SumSeq(SubSeq(pw, 1, i))

\* running_weight after boundary_idx weights
RunningWeight(weights, b) == SumSeq(SubSeq(weights, 1, b))

\* abs(prefix[i] - target) scaled by total_weight, target = running/total * prefix[-1]
CutDistance(pw, weights, b, i) ==
    Abs(SumSeq(weights) * Prefix(pw, i) - RunningWeight(weights, b) * Prefix(pw, Len(pw)))

\* of two admissible indices at the same distance the larger is taken
ChooseCutLastOnTies(pw, weights, b, prev) ==
    LET n == Len(pw)
        remaining == NumLevels - b
        minCut == prev + 1
        maxCut == n - remaining
    IN  IF minCut > maxCut THEN minCut
        ELSE CHOOSE i \in minCut..maxCut :
               \A k \in minCut..maxCut :
                  \/ CutDistance(pw, weights, b, i) < CutDistance(pw, weights, b, k)
                  \/ (CutDistance(pw, weights, b, i) = CutDistance(pw, weights, b, k) /\ i >= k)

\* the cut chosen for boundary b (1..6) given the previous cut
ChooseCut(pw, weights, b, prev) ==
    LET n == Len(pw)
        remaining == NumLevels - b
        minCut == prev + 1
        maxCut == n - remaining
    IN  IF minCut > maxCut THEN minCut
        ELSE CHOOSE i \in minCut..maxCut :
               \A k \in minCut..maxCut :
                  \/ CutDistance(pw, weights, b, i) < CutDistance(pw, weights, b, k)
                  \/ (CutDistance(pw, weights, b, i) = CutDistance(pw, weights, b, k) /\ i <= k)

RECURSIVE Boundaries(_, _, _, _)
Boundaries(pw, weights, b, prev) ==
    IF b > NumLevels - 1 THEN <<>>
    ELSE Eager(LAMBDA cut : <<cut>> \o Boundaries(pw, weights, b + 1, cut),
               ChooseCut(pw, weights, b, prev))

\* the final loop: segment `level` is paragraphs[start:end]
SegmentsFromBoundariesSkipFirst(paragraphs, boundaries) ==
    LET ends == boundaries \o <<Len(paragraphs)>>
    IN  [level \in 1..NumLevels |->
            [level |-> level,
             paras |-> Slice(paragraphs,
                             IF level = 1 THEN 0 ELSE ends[level - 1] + 1,
                             ends[level])]]

SegmentsFromBoundaries(paragraphs, boundaries) ==
    LET ends == boundaries \o <<Len(paragraphs)>>
    IN  [level \in 1..NumLevels |->
            [level |-> level,
             paras |-> Slice(paragraphs,
                             IF level = 1 THEN 0 ELSE ends[level - 1],
                             ends[level])]]

SplitIntoLevelSegments(paragraphs, weights) ==
    IF paragraphs = <<>>
    THEN [level \in 1..NumLevels |-> [level |-> level, paras |-> <<>>]]
    ELSE IF Len(paragraphs) < NumLevels
         THEN SmallSegments(paragraphs)
         ELSE Eager(LAMBDA pw :
                        Eager(LAMBDA boundaries : SegmentsFromBoundaries(paragraphs, boundaries),
                              Boundaries(pw, weights, 1, 0)),
                    ParaWeights(paragraphs))

\* lines 665-667 of run_transformation: the units and their 7 segments
SourceUnits(text) == ExpandUnitsForLevels(SplitIntoParagraphs(text), MinUnits)

PlanSegments(text) ==
    Eager(LAMBDA units : SplitIntoLevelSegments(units, LEVEL_SEGMENT_WEIGHTS), SourceUnits(text))

-----------------------------------------------------------------------------
(* _chunk_paragraphs *)

\* the loop never starts a new chunk
ChunkLoopNoSplit(paras, chunks, cur, curWords) ==
    IF cur \o paras = <<>> THEN chunks ELSE Append(chunks, cur \o paras)

RECURSIVE ChunkLoop(_, _, _, _)
ChunkLoop(paras, chunks, cur, curWords) ==
    IF paras = <<>>
    THEN IF cur # <<>> THEN Append(chunks, cur) ELSE chunks
    ELSE LET para == Head(paras)
             paraWords == WordCount(para)
         IN  IF cur # <<>> /\ curWords + paraWords > MAX_CHUNK_WORDS
             THEN ChunkLoop(Tail(paras), Append(chunks, cur), <<para>>, paraWords)
             ELSE ChunkLoop(Tail(paras), chunks, Append(cur, para), curWords + paraWords)

\* every paragraph is a chunk of its own
ChunkParagraphsOnePerChunk(paragraphs) ==
    [i \in 1..Len(paragraphs) |-> <<paragraphs[i]>>]

ChunkParagraphs(paragraphs) == ChunkLoop(paragraphs, <<>>, <<>>, 0)

-----------------------------------------------------------------------------
(* _split_words_into_batches and _split_long_paragraph_into_batches.      *)
(* A batch is a text: a sequence of sentences or of pieces of a sentence. *)

\* the words of the text numbered from..from+n-1 (1-based over the whole text)
RECURSIVE TakeWords(_, _, _)
TakeWords(text, from, n) ==
    IF text = <<>> \/ n = 0 THEN <<>>
    ELSE LET s == Head(text)
         IN  IF from > s.w THEN TakeWords(Tail(text), from - s.w, n)
             ELSE LET k == Min(n, s.w - from + 1)
                  IN  <<[id |-> s.id, off |-> s.off + from - 1, w |-> k]>>
                        \o TakeWords(Tail(text), 1, n - k)

\* hard split: batches of max_words words, the last one shorter
RECURSIVE WordBatches(_, _, _)
WordBatches(text, from, maxWords) ==
    LET total == WordCount(text)
    IN  IF from > total THEN <<>>
        ELSE <<TakeWords(text, from, Min(maxWords, total - from + 1))>>
               \o WordBatches(text, from + maxWords, maxWords)

SplitWordsIntoBatches(text, maxWords) == WordBatches(text, 1, maxWords)

\* the batch under construction is not flushed before a sentence is cut
RECURSIVE SentenceLoopNoFlush(_, _, _, _, _)
SentenceLoopNoFlush(sentences, out, cur, curWords, maxWords) ==
    IF sentences = <<>>
    THEN IF cur # <<>> THEN Append(out, cur) ELSE out
    ELSE LET s == Head(sentences)
             sWords == s.w
         IN  IF sWords > maxWords
             THEN SentenceLoopNoFlush(Tail(sentences),
                                      out \o SplitWordsIntoBatches(<<s>>, maxWords),
                                      <<>>, 0, maxWords)
             ELSE IF cur # <<>> /\ curWords + sWords > maxWords
                  THEN SentenceLoopNoFlush(Tail(sentences), Append(out, cur), <<s>>,
                                           sWords, maxWords)
                  ELSE SentenceLoopNoFlush(Tail(sentences), out, Append(cur, s),
                                           curWords + sWords, maxWords)

\* the sentence loop of lines 391-412
RECURSIVE SentenceLoop(_, _, _, _, _)
SentenceLoop(sentences, out, cur, curWords, maxWords) ==
    IF sentences = <<>>
    THEN IF cur # <<>> THEN Append(out, cur) ELSE out
    ELSE LET s == Head(sentences)
             sWords == s.w
         IN  IF sWords > maxWords
             THEN SentenceLoop(Tail(sentences),
                               (IF cur # <<>> THEN Append(out, cur) ELSE out)
                                  \o SplitWordsIntoBatches(<<s>>, maxWords),
                               <<>>, 0, maxWords)
             ELSE IF cur # <<>> /\ curWords + sWords > maxWords
                  THEN SentenceLoop(Tail(sentences), Append(out, cur), <<s>>, sWords, maxWords)
                  ELSE SentenceLoop(Tail(sentences), out, Append(cur, s),
                                    curWords + sWords, maxWords)

RECURSIVE SplitLongParagraphIntoBatches(_, _)
SplitLongParagraphIntoBatches(paragraph, maxWords) ==
    IF WordCount(paragraph) <= maxWords THEN <<paragraph>>
    ELSE IF Len(paragraph) <= 1
         THEN SplitWordsIntoBatches(paragraph, maxWords)
         ELSE LET out == SentenceLoop(paragraph, <<>>, <<>>, 0, maxWords)
              IN  IF Len(out) = 1 /\ WordCount(out[1]) > maxWords
                  THEN SplitLongParagraphIntoBatches(paragraph,
                           IF maxWords > 200 THEN maxWords \div 2 ELSE maxWords)
                  ELSE out

-----------------------------------------------------------------------------
(* The persisted rows, the processes and the coroutines *)

Procs == {"A", "B"}

MaxJobs == 2

MaxCrashes == 1

JobIds == 1..MaxJobs

\* who invoked run_transformation_guarded: the start endpoint, startup
\* recovery, or a further caller in a process that already runs the job
Origins == {"start", "recovery", "extra"}

TaskIds == Procs \X JobIds \X Origins

Levels == 0..NumLevels

NoJob == [status |-> "absent"]

NoChapter == [status |-> "absent"]

NoTask == [pc |-> "none"]

\* an invocation that returned at line 66
ReturnedTask == [pc |-> "returned"]

NoResult == [bad |-> FALSE]

\* column defaults of TransformationJob
NewJob == [status |-> "running", total |-> 0, completed |-> 0, current |-> 0,
           error |-> "none"]

TerminalStatuses == {"completed", "failed"}

\* the statuses start_transformation refuses
InFlightStatuses == {"running", "processing"}

ProcOf(t) == t[1]

JobOf(t) == t[2]

Live(t) == tasks[t].pc \notin {"none", "returned"}

\* the locals of run_transformation before its first statement
EmptyLoc == [vocab |-> <<>>, segs |-> <<>>, segIdx |-> 0, chunks |-> <<>>,
             ci |-> 0, pi |-> 0, bi |-> 0, batches |-> <<>>, parts |-> <<>>,
             paraIndex |-> 0, mode |-> "none", inp |-> <<>>, first |-> NoResult,
             chParas |-> <<>>, chFoot |-> <<>>, failed |-> FALSE, tail |-> <<>>]

\* a coroutine of run_transformation_guarded.  Besides its position and locals
\* it carries history the properties refer to: clean (no adapter call of the run
\* returned None before a result was accepted and no await raised), retryNone
\* (a corrective retry returned None), vocab0 (the vocabulary the run loaded),
\* snap (the chapters when the adapter returned None).
NewTask == [pc |-> "begin", loc |-> EmptyLoc, clean |-> TRUE, retryNone |-> FALSE,
            vocab0 |-> <<>>, snap |-> [l \in Levels |-> NoChapter]]

-----------------------------------------------------------------------------
(* The generative service (services/claude.py transform_chunk) as the     *)
(* orchestrator sees it: None, or a result that is a function of the      *)
(* input text, the level and the prompt (known terms, corrective hint).   *)

AdapterKinds == {"clean", "leaky"}

\* levels at which a leaky service first answers in native script
LeakyLevels == {2}

\* A term or footnote reference as the service spells it.  k names the word;
\* v the spelling: "lower", "Upper" (the same word with capitals), "braced"
\* (wrapped once in braces or pipes), "nested" (wrapped twice, with blanks
\* between), "blank" (empty or white space), "none" (None or no such field),
\* "number" (a JSON value that is not a string).
EmptyToken == [k |-> 0, v |-> "blank"]

\* str.lower().strip() of a cleaned token
LowerKey(term) == IF term.v = "Upper" THEN [term EXCEPT !.v = "lower"] ELSE term

\* _clean_term_token of a string or None: one layer of wrapping is removed
CleanTermToken(value) ==
    IF value.v \in {"blank", "none"} THEN EmptyToken
    ELSE IF value.v = "nested" THEN [value EXCEPT !.v = "braced"]
         ELSE IF value.v = "braced" THEN [value EXCEPT !.v = "lower"]
              ELSE value

\* (value or "").strip() raises AttributeError for a truthy value without strip
CleanTermTokenRaises(value) == value.v = "number"

\* line 190: ref if isinstance(ref, str) else str(ref)
StrOf(value) ==
    IF value.v \in {"number", "none"} THEN [value EXCEPT !.v = "lower"] ELSE value

NoTerm == [k |-> 0, v |-> "lower"]

\* a translation: supplied by the service, the raw term of a stub, or not set
ServiceTranslation(level) == [kind |-> "service", term |-> NoTerm, lvl |-> level]

RawTranslation(ref) == [kind |-> "raw", term |-> ref, lvl |-> 0]

Unset == [kind |-> "unset", term |-> NoTerm, lvl |-> 0]

TermOf(text) == [k |-> text[1].id[1] % 2, v |-> IF text[1].off = 0 THEN "Upper" ELSE "lower"]

VocabKeys(vocab) == {vocab[i].key : i \in 1..Len(vocab)}

\* JSON values of a response.  A list, a missing value and a scalar are told
\* apart by kind; a scalar is carried as the one item the code wraps it into.
ListOf(items) == [kind |-> "list", items |-> items]

Missing == [kind |-> "none", items |-> <<>>]

Scalar(item) == [kind |-> "scalar", items |-> <<item>>]

\* a number where a list is expected
NotIterable == [kind |-> "number", items |-> <<>>]

\* a paragraph object {text, footnote_refs}
ParaDict(text, refs) == [kind |-> "dict", text |-> text, footnote_refs |-> refs]

\* a bare string in place of a paragraph object
ParaStr(text) == [kind |-> "str", text |-> text, footnote_refs |-> Missing]

\* a term object, a bare string, or a value that is neither
TermDict(term, translation, category) ==
    [kind |-> "dict", term |-> term, translation |-> translation, category |-> category]

TermStr(term) == [kind |-> "str", term |-> term, translation |-> Unset, category |-> "unset"]

\* the well-formed record {paragraphs, new_terms}; bad: its text leaks script
ResultDict(paragraphs, newTerms, bad) ==
    [shape |-> "dict", paragraphs |-> paragraphs, new_terms |-> newTerms, bad |-> bad]

\* a bare string, a bare list, any other JSON value
ResultStr(text, bad) ==
    [shape |-> "str", paragraphs |-> Scalar(ParaStr(text)), new_terms |-> Missing, bad |-> bad]

ResultList(items, bad) ==
    [shape |-> "list", paragraphs |-> ListOf(items), new_terms |-> Missing, bad |-> bad]

ResultOther == [shape |-> "other", paragraphs |-> Missing, new_terms |-> Missing, bad |-> FALSE]

\* levels at which a leaky service answers in native script even when the
\* prompt carries the corrective hint
StubbornLevels == {2}

Respond(kind, inp, level, hinted, vocab) ==
    ResultDict(
        ListOf([i \in 1..Len(inp) |->
            ParaDict(<<[lvl |-> level, src |-> inp[i], hinted |-> hinted,
                        known |-> LowerKey(TermOf(inp[i])) \in VocabKeys(vocab)]>>,
                     ListOf(<<TermOf(inp[i])>>))]),
        ListOf([i \in 1..Len(inp) |->
            TermDict(TermOf(inp[i]), ServiceTranslation(level), "noun")]),
        kind = "leaky" /\ level \in LeakyLevels
            /\ (~hinted \/ level \in StubbornLevels))

\* _romanization_issues: non-empty when the result text leaks script or diacritics
RomanizationIssues(result) == result.bad

-----------------------------------------------------------------------------
(* Vocabulary and footnotes *)

\* _coerce_transform_result: a dict as it is, a non-blank string as one
\* paragraph, of a list the non-blank strings and the dicts, else nothing
CoerceTransformResult(result) ==
    IF result.shape = "dict" THEN result
    ELSE IF result.shape \in {"str", "list"}
         THEN LET items == result.paragraphs.items
                  keep == SelectSeq(items,
                              LAMBDA p : \/ p.kind = "dict" /\ result.shape = "list"
                                         \/ p.kind = "str" /\ p.text # <<>>)
              IN  ResultDict(
                      ListOf([i \in 1..Len(keep) |->
                                 IF keep[i].kind = "str"
                                 THEN ParaDict(keep[i].text, ListOf(<<>>))
                                 ELSE keep[i]]),
                      ListOf(<<>>), result.bad)
         ELSE ResultDict(ListOf(<<>>), ListOf(<<>>), FALSE)

\* _normalize_footnote_refs: every value as a string, cleaned, the empty dropped
NormalizeFootnoteRefs(value) ==
    LET refs == IF value.kind = "none" THEN <<>> ELSE value.items
        cleaned == [i \in 1..Len(refs) |-> CleanTermToken(StrOf(refs[i]))]
    IN  SelectSeq(cleaned, LAMBDA c : c # EmptyToken)

\* _normalized_paragraphs
NormalizedParagraphs(result) ==
    LET raw == result.paragraphs
        paragraphs == IF raw.kind = "none" THEN <<>> ELSE raw.items
        keep == SelectSeq(paragraphs, LAMBDA p : p.kind \in {"str", "dict"})
    IN  [i \in 1..Len(keep) |->
            IF keep[i].kind = "str"
            THEN [text |-> keep[i].text, footnote_refs |-> <<>>]
            ELSE [text |-> keep[i].text,
                  footnote_refs |-> NormalizeFootnoteRefs(keep[i].footnote_refs)]]

\* lines 449 and 465: list() of a value that is not iterable raises TypeError,
\* _clean_term_token of a term that is not a string raises AttributeError
NewTermsRaise(result) ==
    LET raw == CoerceTransformResult(result).new_terms
    IN  \/ raw.kind = "number"
        \/ \E i \in 1..Len(raw.items) :
              raw.items[i].kind = "dict" /\ CleanTermTokenRaises(raw.items[i].term)

StubTerm(ref) == [term |-> ref, translation |-> RawTranslation(ref), category |-> "other"]

\* lines 448-471: string entries become stubs, objects keep their fields with
\* the term cleaned, entries without a term and other values are dropped
NormalizedNewTerms(result) ==
    LET raw == result.new_terms
        items == IF raw.kind = "list" THEN raw.items ELSE <<>>
        keep == SelectSeq(items,
                    LAMBDA t : t.kind \in {"str", "dict"}
                               /\ CleanTermToken(t.term) # EmptyToken)
    IN  [i \in 1..Len(keep) |->
            IF keep[i].kind = "str" THEN StubTerm(CleanTermToken(keep[i].term))
            ELSE [term |-> CleanTermToken(keep[i].term),
                  translation |-> keep[i].translation,
                  category |-> keep[i].category]]

\* term_lookup / chunk_term_data: a dict comprehension, the last entry of a key wins
RECURSIVE LookupTerm(_, _)
LookupTerm(newTerms, key) ==
    IF newTerms = <<>> THEN [found |-> FALSE]
    ELSE LET t == newTerms[Len(newTerms)]
         IN  IF LowerKey(t.term) = key THEN [found |-> TRUE, t |-> t]
             ELSE LookupTerm(SubSeq(newTerms, 1, Len(newTerms) - 1), key)

AllRefs(result) ==
    Flatten([i \in 1..Len(NormalizedParagraphs(result)) |->
                NormalizedParagraphs(result)[i].footnote_refs])

\* a reference is listed at each of its occurrences
RECURSIVE MissingRefsRepeated(_, _, _)
MissingRefsRepeated(refs, newTerms, seen) ==
    IF refs = <<>> THEN <<>>
    ELSE LET r == CleanTermToken(Head(refs))
         IN  IF r = EmptyToken \/ LookupTerm(newTerms, LowerKey(r)).found
             THEN MissingRefsRepeated(Tail(refs), newTerms, seen)
             ELSE <<r>> \o MissingRefsRepeated(Tail(refs), newTerms, seen)

\* lines 476-482: the refs, cleaned once more, without a new_terms entry, each
\* key once, in order of appearance
RECURSIVE MissingRefs(_, _, _)
MissingRefs(refs, newTerms, seen) ==
    IF refs = <<>> THEN <<>>
    ELSE LET r == CleanTermToken(Head(refs))
             key == LowerKey(r)
         IN  IF r = EmptyToken \/ LookupTerm(newTerms, key).found \/ key \in seen
             THEN MissingRefs(Tail(refs), newTerms, seen)
             ELSE <<r>> \o MissingRefs(Tail(refs), newTerms, seen \cup {key})

\* no stub is added for a reference without an entry
EnsureNewTermsNoStubs(result) == NormalizedNewTerms(CoerceTransformResult(result))

EnsureNewTermsForRefs(result) ==
    LET coerced == CoerceTransformResult(result)
        newTerms == NormalizedNewTerms(coerced)
        missing == MissingRefs(AllRefs(coerced), newTerms, {})
    IN  newTerms \o [i \in 1..Len(missing) |-> StubTerm(missing[i])]

\* a later introduction replaces the entry of its key
RECURSIVE AddTermsLastWins(_, _, _)
AddTermsLastWins(vocab, newTerms, level) ==
    IF newTerms = <<>> THEN vocab
    ELSE LET t == Head(newTerms)
             key == LowerKey(t.term)
             entry == [key |-> key, term |-> t.term, translation |-> t.translation,
                       category |-> t.category, first_chapter |-> level]
         IN  IF key = EmptyToken THEN AddTermsLastWins(vocab, Tail(newTerms), level)
             ELSE IF key \in VocabKeys(vocab)
                  THEN AddTermsLastWins([i \in 1..Len(vocab) |->
                                            IF vocab[i].key = key THEN entry ELSE vocab[i]],
                                        Tail(newTerms), level)
                  ELSE AddTermsLastWins(Append(vocab, entry), Tail(newTerms), level)

\* VocabularyTracker.add_terms: first introduction wins
RECURSIVE AddTerms(_, _, _)
AddTerms(vocab, newTerms, level) ==
    IF newTerms = <<>> THEN vocab
    ELSE LET t == Head(newTerms)
             key == LowerKey(t.term)
         IN  IF key = EmptyToken \/ key \in VocabKeys(vocab)
             THEN AddTerms(vocab, Tail(newTerms), level)
             ELSE AddTerms(Append(vocab, [key |-> key, term |-> t.term,
                                          translation |-> t.translation,
                                          category |-> t.category,
                                          first_chapter |-> level]),
                           Tail(newTerms), level)

VocabEntry(vocab, key) == vocab[CHOOSE i \in 1..Len(vocab) : vocab[i].key = key]

\* lines 532-547: the footnotes of one returned paragraph
ParaFootnotes(para, index, newTerms) ==
    LET refs == SelectSeq([r \in 1..Len(para.footnote_refs) |->
                              CleanTermToken(para.footnote_refs[r])],
                          LAMBDA ref : ref # EmptyToken)
    IN  [r \in 1..Len(refs) |->
            LET td == LookupTerm(newTerms, LowerKey(refs[r]))
            IN  IF td.found
                THEN [term |-> refs[r], paragraph_index |-> index,
                      translation |-> td.t.translation, category |-> td.t.category]
                ELSE [term |-> refs[r], paragraph_index |-> index,
                      translation |-> Unset, category |-> "unset"]]

\* _collect_chunk_outputs
CollectChunkOutputs(result, offset) ==
    Eager(LAMBDA coerced :
        Eager(LAMBDA newTerms :
            Eager(LAMBDA paras :
                [out_paras |-> [i \in 1..Len(paras) |-> paras[i].text],
                 out_footnotes |->
                    Flatten([i \in 1..Len(paras) |->
                                ParaFootnotes(paras[i], offset + i - 1, newTerms)]),
                 new_terms |-> newTerms],
                NormalizedParagraphs(coerced)),
            EnsureNewTermsForRefs(coerced)),
        CoerceTransformResult(result))

\* _enrich_footnotes
EnrichFootnotes(footnotes, vocab) ==
    [i \in 1..Len(footnotes) |->
        LET ft == footnotes[i]
            key == LowerKey(ft.term)
        IN  IF key \in VocabKeys(vocab)
            THEN [ft EXCEPT !.translation = VocabEntry(vocab, key).translation,
                            !.category = VocabEntry(vocab, key).category]
            ELSE ft]

-----------------------------------------------------------------------------
(* The continuity tail.  A text is a sequence of pieces; a piece has the  *)
(* words of its source.  A word sequence is a sequence of spans, a span   *)
(* the words from..to of a piece.                                         *)

PieceWords(piece) == WordCount(piece.src)

\* str.split() of a text
WordsOf(text) ==
    LET pieces == SelectSeq(text, LAMBDA piece : PieceWords(piece) > 0)
    IN  [i \in 1..Len(pieces) |->
            [p |-> pieces[i], from |-> 1, to |-> PieceWords(pieces[i])]]

SpanWords(spans) == SumSeq([i \in 1..Len(spans) |-> spans[i].to - spans[i].from + 1])

\* words[-n:]
RECURSIVE LastWords(_, _)
LastWords(spans, n) ==
    IF spans = <<>> \/ n <= 0 THEN <<>>
    ELSE LET last == spans[Len(spans)]
             len == last.to - last.from + 1
         IN  IF len >= n THEN <<[last EXCEPT !.from = last.to - n + 1]>>
             ELSE Append(LastWords(SubSeq(spans, 1, Len(spans) - 1), n - len), last)

\* the tail grows without a cap
UpdateContextTailNoCap(existing, newText) == existing \o WordsOf(newText)

\* _update_context_tail
UpdateContextTail(existing, newText) ==
    LastWords(existing \o WordsOf(newText), CONTEXT_TAIL_WORDS)

\* " ".join(out_paras[-2:])
LastTwoJoined(outParas) ==
    Flatten(SubSeq(outParas, Max(1, Len(outParas) - 1), Len(outParas)))

-----------------------------------------------------------------------------
(* The chunk loop of run_transformation (lines 709-850) between two       *)
(* adapter calls.  mode names the call site that is waiting: "chunk" (751),*)
(* "para" (784), "batch" (817); "done" when the chunks are exhausted.     *)

\* line 749: one call for the whole chunk
WholeChunkCallAlways(chunk) == TRUE

WholeChunkCall(chunk) ==
    /\ WordCountAll(chunk) <= MAX_CALL_WORDS
    /\ \A i \in 1..Len(chunk) : WordCount(chunk[i]) <= MAX_CALL_WORDS

RECURSIVE EnterChunk(_, _)
RECURSIVE EnterPara(_, _, _)
RECURSIVE EnterBatch(_, _)

\* line 816: the next batch, or line 847 and the next paragraph
EnterBatch(loc, bi) ==
    IF bi > Len(loc.batches)
    THEN EnterPara([loc EXCEPT !.chParas[loc.paraIndex + 1] = Flatten(loc.parts)],
                   loc.ci, loc.pi + 1)
    ELSE [loc EXCEPT !.bi = bi, !.mode = "batch", !.inp = <<loc.batches[bi]>>]

\* line 773: the next paragraph of the fallback path, or the next chunk
EnterPara(loc, ci, pi) ==
    IF pi > Len(loc.chunks[ci]) THEN EnterChunk(loc, ci + 1)
    ELSE LET para == loc.chunks[ci][pi]
         IN  IF para = <<>>
             THEN EnterPara([loc EXCEPT !.chParas = Append(@, <<>>)], ci, pi + 1)
             ELSE IF WordCount(para) <= MAX_CALL_WORDS
                  THEN [loc EXCEPT !.ci = ci, !.pi = pi, !.mode = "para", !.inp = <<para>>]
                  ELSE EnterBatch([loc EXCEPT !.ci = ci, !.pi = pi,
                                       !.paraIndex = Len(loc.chParas),
                                       !.chParas = Append(@, <<>>),
                                       !.parts = <<>>,
                                       !.batches = SplitLongParagraphIntoBatches(para, MAX_CALL_WORDS)],
                                  1)

\* line 709: the next chunk of the segment
EnterChunk(loc, ci) ==
    IF ci > Len(loc.chunks) THEN [loc EXCEPT !.ci = ci, !.mode = "done", !.inp = <<>>]
    ELSE IF loc.chunks[ci] = <<>> THEN EnterChunk(loc, ci + 1)
         ELSE IF WholeChunkCall(loc.chunks[ci])
              THEN [loc EXCEPT !.ci = ci, !.pi = 0, !.mode = "chunk", !.inp = loc.chunks[ci]]
              ELSE EnterPara(loc, ci, 1)

\* the continuity tail is left as it was
AfterCollectedStaleTail(loc, result, level) ==
    LET c == CollectChunkOutputs(result, Len(loc.chParas))
        outs == IF loc.mode = "para" /\ c.out_paras = <<>> THEN <<<<>>>> ELSE c.out_paras
    IN  [loc EXCEPT !.chParas = @ \o outs,
                    !.chFoot = @ \o c.out_footnotes,
                    !.vocab = AddTerms(@, c.new_terms, level)]

\* lines 756-769 and 789-806: a result of a whole-chunk or per-paragraph call
AfterCollected(loc, result, level) ==
    Eager(LAMBDA c :
        LET outs == IF loc.mode = "para" /\ c.out_paras = <<>> THEN <<<<>>>> ELSE c.out_paras
        IN  [loc EXCEPT !.chParas = @ \o outs,
                        !.chFoot = @ \o c.out_footnotes,
                        !.vocab = AddTerms(@, c.new_terms, level),
                        !.tail = IF c.out_paras = <<>> THEN @
                                 ELSE IF loc.mode = "chunk"
                                      THEN UpdateContextTail(@, LastTwoJoined(c.out_paras))
                                      ELSE UpdateContextTail(@, c.out_paras[Len(c.out_paras)])],
        CollectChunkOutputs(result, Len(loc.chParas)))

\* lines 822-842: a result of a sentence-batch call; of its paragraphs only
\* the first is used
AfterBatch(loc, result, level) ==
    LET newTerms == EnsureNewTermsForRefs(result)
        paras == NormalizedParagraphs(CoerceTransformResult(result))
        refs == SelectSeq([r \in 1..Len(paras[1].footnote_refs) |->
                              CleanTermToken(paras[1].footnote_refs[r])],
                          LAMBDA ref : ref # EmptyToken)
    IN  IF paras = <<>>
        THEN [loc EXCEPT !.vocab = AddTerms(@, newTerms, level)]
        ELSE [loc EXCEPT !.vocab = AddTerms(@, newTerms, level),
                         !.parts = Append(@, paras[1].text),
                         !.tail = UpdateContextTail(@, paras[1].text),
                         !.chFoot = @ \o
                            [r \in 1..Len(refs) |->
                                [term |-> refs[r],
                                 paragraph_index |-> loc.paraIndex,
                                 translation |-> Unset, category |-> "unset"]]]

\* the locals when the accepted result of the waiting call site has been processed
AfterResult(loc, result, level) ==
    IF loc.mode = "chunk"
    THEN Eager(LAMBDA l : EnterChunk(l, loc.ci + 1), AfterCollected(loc, result, level))
    ELSE IF loc.mode = "para"
         THEN Eager(LAMBDA l : EnterPara(l, loc.ci, loc.pi + 1), AfterCollected(loc, result, level))
         ELSE Eager(LAMBDA l : EnterBatch(l, loc.bi + 1), AfterBatch(loc, result, level))

-----------------------------------------------------------------------------
(* Source texts of the orchestration model *)

\* the block at position i with shape sh: sentences named <<i, k>>
MkBlock(i, sh) == [k \in 1..Len(sh) |-> [id |-> <<i, k>>, off |-> 0, w |-> sh[k]]]

MkText(shapes) == [i \in 1..Len(shapes) |-> MkBlock(i, shapes[i])]

DocEmpty == MkText(<<>>)

\* fewer than 7 units: one sentence above the call cap, one two-sentence block
DocSmall == MkText(<<<<1000>>, <<40, 50>>>>)

\* 9 paragraphs: a two-paragraph chunk (level 1), a two-chunk level (level 2),
\* a sentence-batched paragraph (level 6)
DocLong == MkText(<<<<60>>, <<60>>, <<130>>, <<130>>, <<60>>, <<60>>, <<60>>,
                    <<500, 450, 30>>, <<60>>>>)

-----------------------------------------------------------------------------
(* Initial states *)

IdleFn ==
    /\ fnIn = <<>>
    /\ fnOut = <<>>
    /\ fnPc = "idle"

EmptyDb(text) ==
    /\ project = [status |-> "created", vocabulary |-> <<>>, text |-> text]
    /\ jobs = [j \in JobIds |-> NoJob]
    /\ chapters = [l \in Levels |-> NoChapter]
    /\ nextJob = 1

NoProcess ==
    /\ up = [p \in Procs |-> FALSE]
    /\ active = [p \in Procs |-> {}]
    /\ lock = {}
    /\ tasks = [t \in TaskIds |-> NoTask]
    /\ starting = {}
    /\ crashes = 0

IdleSystem ==
    /\ EmptyDb(DocEmpty)
    /\ NoProcess
    /\ adapter = "clean"

\* the text of the project and the service behaviour of one history
Scenarios == {<<DocSmall, "leaky">>, <<DocLong, "clean">>}

Init ==
    /\ IdleFn
    /\ NoProcess
    /\ \E sc \in Scenarios : EmptyDb(sc[1]) /\ adapter = sc[2]

-----------------------------------------------------------------------------
(* Server processes: lifespan startup, crash, and the start endpoint *)

At(t, pc) == tasks[t].pc = pc

Goto(t, pc) == tasks' = [tasks EXCEPT ![t].pc = pc]

GotoWith(t, pc, loc) == tasks' = [tasks EXCEPT ![t].pc = pc, ![t].loc = loc]

\* flock(LOCK_EX | LOCK_NB) succeeds when no other open file holds the lock
LockGrantedAlways(holders) == TRUE

LockGranted(holders) == holders = {}

\* line 65: the job id is in ACTIVE_JOB_IDS of the process
RegisteredNever(p, j) == FALSE

Registered(p, j) == j \in active[p]

\* run_transformation_guarded, lines 65-69, with _acquire_project_lock, lines
\* 74-86: a coroutine runs without suspension from the registry check to its
\* first flock attempt.  It ends at once when its job id is registered;
\* otherwise it registers the id and holds the lock or sleeps before retrying.
Guarded(t) ==
    IF Registered(ProcOf(t), JobOf(t))
    THEN /\ tasks' = [tasks EXCEPT ![t] = ReturnedTask]
         /\ UNCHANGED <<active, lock>>
    ELSE /\ active' = [active EXCEPT ![ProcOf(t)] = @ \cup {JobOf(t)}]
         /\ IF LockGranted(lock)
            THEN /\ lock' = lock \cup {t}
                 /\ tasks' = [tasks EXCEPT ![t] = [NewTask EXCEPT !.pc = "begin"]]
            ELSE /\ tasks' = [tasks EXCEPT ![t] = [NewTask EXCEPT !.pc = "acquire"]]
                 /\ UNCHANGED lock

\* the statuses recover_incomplete_jobs selects
RecoverableStatusesProcessingOnly == {"processing"}

RecoverableStatuses == {"running", "processing"}

\* the job rows recover_incomplete_jobs finds
IncompleteJobs == {j \in JobIds : jobs[j].status \in RecoverableStatuses}

\* lifespan: recover_incomplete_jobs creates one guarded run per job found; the
\* coroutines start on the next turn of the event loop, in creation order,
\* before the process serves a request, so the first takes the lock if it is
\* free and the others wait for it
Startup(p) ==
    LET first == CHOOSE j \in IncompleteJobs : \A k \in IncompleteJobs : j <= k
        winner == IF IncompleteJobs # {} /\ LockGranted(lock)
                  THEN {<<p, first, "recovery">>}
                  ELSE {}
    IN  /\ ~up[p]
        /\ up' = [up EXCEPT ![p] = TRUE]
        /\ active' = [active EXCEPT ![p] = IncompleteJobs]
        /\ lock' = lock \cup winner
        /\ tasks' = [t \in TaskIds |->
                        IF t[1] = p /\ t[3] = "recovery" /\ t[2] \in IncompleteJobs
                        THEN [NewTask EXCEPT
                                 !.pc = IF t \in winner THEN "begin" ELSE "acquire"]
                        ELSE tasks[t]]
        /\ UNCHANGED <<fnVars, starting, dbVars, adapter, crashes>>

\* the process dies: its coroutines and its registry vanish, its flock is dropped
Crash(p) ==
    /\ up[p]
    /\ crashes < MaxCrashes
    /\ up' = [up EXCEPT ![p] = FALSE]
    /\ tasks' = [t \in TaskIds |-> IF t[1] = p THEN NoTask ELSE tasks[t]]
    /\ active' = [active EXCEPT ![p] = {}]
    /\ lock' = {t \in lock : t[1] # p}
    /\ starting' = starting \ {p}
    /\ crashes' = crashes + 1
    /\ UNCHANGED <<fnVars, dbVars, adapter>>

\* POST /api/projects/{id}/transform; the background task starts when the
\* response has been sent
StartTransformation(p) ==
    /\ up[p]
    /\ nextJob <= MaxJobs
    /\ project.status # "processing"
    /\ \A j \in JobIds : jobs[j].status \notin InFlightStatuses
    /\ chapters' = [l \in Levels |-> NoChapter]
    /\ jobs' = [j \in JobIds |-> IF j = nextJob THEN NewJob ELSE NoJob]
    /\ project' = [project EXCEPT !.vocabulary = <<>>, !.status = "processing"]
    /\ nextJob' = nextJob + 1
    /\ Guarded(<<p, nextJob, "start">>)
    /\ UNCHANGED <<fnVars, starting, up, adapter, crashes>>

-----------------------------------------------------------------------------
(* The project lock and the exit of run_transformation_guarded *)

\* every attempt ends in BlockingIOError
AcquireNever(t) ==
    /\ At(t, "acquire")
    /\ LockGranted(lock)
    /\ UNCHANGED vars

\* lines 83-88: a later attempt after asyncio.sleep(0.2); a failed attempt
\* (BlockingIOError, sleep again) leaves the state as it is
Acquire(t) ==
    /\ At(t, "acquire")
    /\ LockGranted(lock)
    /\ lock' = lock \cup {t}
    /\ Goto(t, "begin")
    /\ UNCHANGED <<fnVars, starting, dbVars, up, active, adapter, crashes>>

\* the finally block of line 893 is skipped: the coroutine ends holding the flock
ReleaseKeepsLock(t) ==
    /\ At(t, "release")
    /\ active' = [active EXCEPT ![ProcOf(t)] = @ \ {JobOf(t)}]
    /\ tasks' = [tasks EXCEPT ![t] = NoTask,
                              ![<<ProcOf(t), JobOf(t), "extra">>] = NoTask]
    /\ UNCHANGED <<fnVars, starting, dbVars, up, lock, adapter, crashes>>

\* line 893 and line 71: the two finally blocks run without suspension;
\* _release_project_lock, then ACTIVE_JOB_IDS.discard, then the coroutine ends
\* (and with it the record of an invocation the registry turned away meanwhile)
Release(t) ==
    /\ At(t, "release")
    /\ lock' = lock \ {t}
    /\ active' = [active EXCEPT ![ProcOf(t)] = @ \ {JobOf(t)}]
    /\ tasks' = [tasks EXCEPT ![t] = NoTask,
                              ![<<ProcOf(t), JobOf(t), "extra">>] = NoTask]
    /\ UNCHANGED <<fnVars, starting, dbVars, up, adapter, crashes>>

-----------------------------------------------------------------------------
(* run_transformation: one action per stretch of code that ends with a    *)
(* commit or with the return of an adapter call                            *)

Loc(t) == tasks[t].loc

LevelOf(t) == Loc(t).segs[Loc(t).segIdx + 1].level

SegParas(t) == Loc(t).segs[Loc(t).segIdx + 1].paras

\* the UPDATE of a chapter row flushed by commit finds the row
OwnsChapter(t, l) == chapters[l].status # "absent"

\* the UPDATE of the job row finds the row
HasJob(t) == jobs[JobOf(t)].status # "absent"

\* an exception inside the try block of run_transformation: the locals of the
\* block are gone when the handler runs
Raise(t) == tasks' = [tasks EXCEPT ![t].pc = "handler", ![t].loc = EmptyLoc]

\* lines 633-645
Begin(t) ==
    /\ At(t, "begin")
    /\ IF ~HasJob(t)
       THEN /\ Goto(t, "release")
            /\ UNCHANGED dbVars
       ELSE /\ project' = [project EXCEPT !.status = "processing"]
            /\ jobs' = [jobs EXCEPT ![JobOf(t)].status = "processing",
                                    ![JobOf(t)].error = "none"]
            /\ tasks' = [tasks EXCEPT ![t].pc = "delete",
                                      ![t].loc.vocab = project.vocabulary,
                                      ![t].vocab0 = project.vocabulary]
            /\ UNCHANGED <<chapters, nextJob>>
    /\ UNCHANGED <<fnVars, starting, up, active, lock, adapter, crashes>>

DeletedChaptersKeepAll(chs) == chs

\* line 648: DELETE FROM chapters WHERE project_id = ...
DeletedChapters(chs) == [l \in Levels |-> NoChapter]

\* lines 647-649
DeleteChapters(t) ==
    /\ At(t, "delete")
    /\ chapters' = DeletedChapters(chapters)
    /\ Goto(t, "chapter0")
    /\ UNCHANGED <<fnVars, starting, project, jobs, nextJob, up, active, lock, adapter, crashes>>

\* lines 651-662; the unique (project_id, chapter_num) index rejects a second row
SaveChapter0(t) ==
    /\ At(t, "chapter0")
    /\ IF chapters[0].status # "absent"
       THEN /\ Raise(t)
            /\ UNCHANGED chapters
       ELSE /\ chapters' = [chapters EXCEPT ![0] =
                   [status |-> "completed", level |-> 0,
                    source |-> project.text, content |-> project.text,
                    footnotes |-> <<>>]]
            /\ Goto(t, "plan")
    /\ UNCHANGED <<fnVars, starting, project, jobs, nextJob, up, active, lock, adapter, crashes>>

\* lines 664-676
Plan(t) ==
    /\ At(t, "plan")
    /\ IF ~HasJob(t)
       THEN /\ Raise(t)
            /\ UNCHANGED jobs
       ELSE /\ jobs' = [jobs EXCEPT ![JobOf(t)].total = 8,
                                    ![JobOf(t)].current = 1,
                                    ![JobOf(t)].completed = 1]
            /\ tasks' = [tasks EXCEPT ![t].pc = "level",
                                      ![t].loc.segs = PlanSegments(project.text),
                                      ![t].loc.segIdx = 0]
    /\ UNCHANGED <<fnVars, starting, project, chapters, nextJob, up, active, lock, adapter, crashes>>

\* lines 679-681
LevelStart(t) ==
    /\ At(t, "level")
    /\ IF ~HasJob(t)
       THEN /\ Raise(t)
            /\ UNCHANGED jobs
       ELSE /\ jobs' = [jobs EXCEPT ![JobOf(t)].current = 2 + Loc(t).segIdx]
            /\ Goto(t, "add_chapter")
    /\ UNCHANGED <<fnVars, starting, project, chapters, nextJob, up, active, lock, adapter, crashes>>

\* lines 683-693, then 695 or 704-716 up to the first adapter call
AddChapter(t) ==
    /\ At(t, "add_chapter")
    /\ IF chapters[LevelOf(t)].status # "absent"
       THEN /\ Raise(t)
            /\ UNCHANGED chapters
       ELSE /\ chapters' = [chapters EXCEPT ![LevelOf(t)] =
                   [status |-> "processing", level |-> LevelOf(t),
                    source |-> SegParas(t), content |-> <<>>, footnotes |-> <<>>]]
            /\ IF SegParas(t) = <<>>
               THEN Goto(t, "empty_done")
               ELSE LET loc == EnterChunk([Loc(t) EXCEPT
                                              !.chunks = ChunkParagraphs(SegParas(t)),
                                              !.chParas = <<>>, !.chFoot = <<>>,
                                              !.failed = FALSE], 1)
                    IN  GotoWith(t, IF loc.mode = "done" THEN "finalize" ELSE "call1", loc)
    /\ UNCHANGED <<fnVars, starting, project, jobs, nextJob, up, active, lock, adapter, crashes>>

\* the status a finished chapter is given (lines 698 and 866)
FinishedChapterStatusStale == "processing"

FinishedChapterStatus == "completed"

\* lines 695-699
EmptyDone(t) ==
    /\ At(t, "empty_done")
    /\ IF ~OwnsChapter(t, LevelOf(t))
       THEN /\ Raise(t)
            /\ UNCHANGED chapters
       ELSE /\ chapters' = [chapters EXCEPT ![LevelOf(t)].content = <<>>,
                                            ![LevelOf(t)].footnotes = <<>>,
                                            ![LevelOf(t)].status = FinishedChapterStatus]
            /\ Goto(t, "count")
    /\ UNCHANGED <<fnVars, starting, project, jobs, nextJob, up, active, lock, adapter, crashes>>

\* the value written to completed_chapters after segment seg_idx
CompletedAfterOffByOne(segIdx) == 1 + segIdx

CompletedAfter(segIdx) == 2 + segIdx

\* lines 700-702 and 869-870, and the loop header of line 679
Count(t) ==
    /\ At(t, "count")
    /\ IF ~HasJob(t)
       THEN /\ Raise(t)
            /\ UNCHANGED jobs
       ELSE /\ jobs' = [jobs EXCEPT ![JobOf(t)].completed = CompletedAfter(Loc(t).segIdx)]
            /\ IF Loc(t).segIdx + 1 < NumLevels
               THEN tasks' = [tasks EXCEPT ![t].pc = "level",
                                           ![t].loc.segIdx = @ + 1]
               ELSE Goto(t, "finish")
    /\ UNCHANGED <<fnVars, starting, project, chapters, nextJob, up, active, lock, adapter, crashes>>

\* where the run goes when the waiting call site has its accepted result
Accept(t, result) ==
    IF NewTermsRaise(result) THEN Raise(t)
    ELSE LET loc == AfterResult(Loc(t), result, LevelOf(t))
         IN  GotoWith(t, IF loc.mode = "done" THEN "finalize" ELSE "call1", loc)

\* what the run does when the first call returns None (lines 752-754, 785-787, 818-820)
OnNoResultContinue(t) ==
    LET loc == EnterChunk(Loc(t), Loc(t).ci + 1)
    IN  tasks' = [tasks EXCEPT ![t].pc = IF loc.mode = "done" THEN "finalize" ELSE "call1",
                               ![t].loc = loc,
                               ![t].clean = FALSE]

OnNoResult(t) ==
    tasks' = [tasks EXCEPT ![t].pc = "fail_chapter",
                           ![t].loc.failed = TRUE,
                           ![t].clean = FALSE,
                           ![t].snap = chapters]

\* lines 729-741: the first transform_chunk call of a call site returns
Call1(t, ok) ==
    /\ At(t, "call1")
    /\ IF ~ok
       THEN OnNoResult(t)
       ELSE LET result == Respond(adapter, Loc(t).inp, LevelOf(t), FALSE, Loc(t).vocab)
            IN  IF RomanizationIssues(result)
                THEN tasks' = [tasks EXCEPT ![t].pc = "call2", ![t].loc.first = result]
                ELSE Accept(t, result)
    /\ UNCHANGED <<fnVars, starting, dbVars, up, active, lock, adapter, crashes>>

\* a retry without result fails the chunk as a first call without result does
OnRetryNoResultFails(t) == OnNoResult(t)

\* line 747: the retry returned None and the first result stands
OnRetryNoResult(t) ==
    LET loc == AfterResult(Loc(t), Loc(t).first, LevelOf(t))
    IN  IF NewTermsRaise(Loc(t).first) THEN Raise(t)
        ELSE tasks' = [tasks EXCEPT
                          ![t].pc = IF loc.mode = "done" THEN "finalize" ELSE "call1",
                          ![t].loc = loc,
                          ![t].retryNone = TRUE]

\* the retry result is checked as the first was, and retried while it leaks
Call2Rechecks(t, ok) ==
    /\ At(t, "call2")
    /\ LET retried == Respond(adapter, Loc(t).inp, LevelOf(t), TRUE, Loc(t).vocab)
           result == IF ok THEN retried ELSE Loc(t).first
           loc == AfterResult(Loc(t), result, LevelOf(t))
       IN  IF ok /\ RomanizationIssues(retried)
           THEN tasks' = [tasks EXCEPT ![t].loc.first = retried]
           ELSE tasks' = [tasks EXCEPT
                             ![t].pc = IF loc.mode = "done" THEN "finalize" ELSE "call1",
                             ![t].loc = loc,
                             ![t].retryNone = @ \/ ~ok]
    /\ UNCHANGED <<fnVars, starting, dbVars, up, active, lock, adapter, crashes>>

\* lines 743-747: the corrective retry returns
Call2(t, ok) ==
    /\ At(t, "call2")
    /\ IF ~ok
       THEN OnRetryNoResult(t)
       ELSE LET result == Respond(adapter, Loc(t).inp, LevelOf(t), TRUE, Loc(t).vocab)
                loc == AfterResult(Loc(t), result, LevelOf(t))
            IN  IF NewTermsRaise(result) THEN Raise(t)
                ELSE tasks' = [tasks EXCEPT
                                  ![t].pc = IF loc.mode = "done" THEN "finalize" ELSE "call1",
                                  ![t].loc = loc]
    /\ UNCHANGED <<fnVars, starting, dbVars, up, active, lock, adapter, crashes>>

\* lines 862-867
Finalize(t) ==
    /\ At(t, "finalize")
    /\ IF ~OwnsChapter(t, LevelOf(t))
       THEN /\ Raise(t)
            /\ UNCHANGED chapters
       ELSE /\ chapters' = [chapters EXCEPT
                   ![LevelOf(t)].footnotes = EnrichFootnotes(Loc(t).chFoot, Loc(t).vocab),
                   ![LevelOf(t)].content = Loc(t).chParas,
                   ![LevelOf(t)].status = FinishedChapterStatus]
            /\ Goto(t, "count")
    /\ UNCHANGED <<fnVars, starting, project, jobs, nextJob, up, active, lock, adapter, crashes>>

\* lines 852-854
FailChapter(t) ==
    /\ At(t, "fail_chapter")
    /\ IF ~OwnsChapter(t, LevelOf(t))
       THEN /\ Raise(t)
            /\ UNCHANGED chapters
       ELSE /\ chapters' = [chapters EXCEPT ![LevelOf(t)].status = "failed"]
            /\ Goto(t, "fail_job")
    /\ UNCHANGED <<fnVars, starting, project, jobs, nextJob, up, active, lock, adapter, crashes>>

\* lines 855-860
FailJob(t) ==
    /\ At(t, "fail_job")
    /\ IF ~HasJob(t)
       THEN /\ Raise(t)
            /\ UNCHANGED <<jobs, project>>
       ELSE /\ jobs' = [jobs EXCEPT ![JobOf(t)].status = "failed",
                                    ![JobOf(t)].error = "level"]
            /\ project' = [project EXCEPT !.status = "failed"]
            /\ Goto(t, "release")
    /\ UNCHANGED <<fnVars, starting, chapters, nextJob, up, active, lock, adapter, crashes>>

\* lines 872-878
Finish(t) ==
    /\ At(t, "finish")
    /\ IF ~HasJob(t)
       THEN /\ Raise(t)
            /\ UNCHANGED <<jobs, project>>
       ELSE /\ project' = [project EXCEPT !.vocabulary = Loc(t).vocab,
                                          !.status = "completed"]
            /\ jobs' = [jobs EXCEPT ![JobOf(t)].status = "completed",
                                    ![JobOf(t)].completed = 8]
            /\ Goto(t, "release")
    /\ UNCHANGED <<fnVars, starting, chapters, nextJob, up, active, lock, adapter, crashes>>

TryPcs == {"begin", "delete", "chapter0", "plan", "level", "add_chapter", "empty_done",
           "count", "call1", "call2", "finalize", "fail_chapter", "fail_job", "finish"}

\* an await inside the try block raises (a commit fails, a prompt cannot be built)
Fault(t) ==
    /\ tasks[t].pc \in TryPcs
    /\ tasks' = [tasks EXCEPT ![t].pc = "handler", ![t].loc = EmptyLoc,
                              ![t].clean = FALSE]
    /\ UNCHANGED <<fnVars, starting, dbVars, up, active, lock, adapter, crashes>>

\* lines 879-891
Handler(t) ==
    /\ At(t, "handler")
    /\ jobs' = IF HasJob(t)
               THEN [jobs EXCEPT ![JobOf(t)].status = "failed",
                                 ![JobOf(t)].error = "exception"]
               ELSE jobs
    /\ project' = [project EXCEPT !.status = "failed"]
    /\ Goto(t, "release")
    /\ UNCHANGED <<fnVars, starting, chapters, nextJob, up, active, lock, adapter, crashes>>

RunStep(t) ==
    \/ Acquire(t) \/ Begin(t) \/ DeleteChapters(t)
    \/ SaveChapter0(t) \/ Plan(t) \/ LevelStart(t) \/ AddChapter(t) \/ EmptyDone(t)
    \/ Count(t) \/ (\E ok \in BOOLEAN : Call1(t, ok)) \/ (\E ok \in BOOLEAN : Call2(t, ok))
    \/ Finalize(t) \/ FailChapter(t) \/ FailJob(t) \/ Finish(t) \/ Handler(t)
    \/ Release(t)

Next ==
    \/ \E p \in Procs : Startup(p)
    \/ \E p \in Procs : Crash(p)
    \/ \E p \in Procs : StartTransformation(p)
    \/ \E t \in TaskIds : RunStep(t)
    \/ \E t \in TaskIds : Fault(t)

Spec == Init /\ [][Next]_vars

\* One server process: its runs never find the lock taken, so that no
\* invocation waits in _acquire_project_lock.
RunStepAlone(t) ==
    \/ Begin(t) \/ DeleteChapters(t)
    \/ SaveChapter0(t) \/ Plan(t) \/ LevelStart(t) \/ AddChapter(t) \/ EmptyDone(t)
    \/ Count(t) \/ (\E ok \in BOOLEAN : Call1(t, ok)) \/ (\E ok \in BOOLEAN : Call2(t, ok))
    \/ Finalize(t) \/ FailChapter(t) \/ FailJob(t) \/ Finish(t) \/ Handler(t)
    \/ Release(t)

NextRun ==
    \/ Startup("A")
    \/ Crash("A")
    \/ StartTransformation("A")
    \/ \E t \in TaskIds : RunStepAlone(t)
    \/ \E t \in TaskIds : Fault(t)

SpecRun == Init /\ [][NextRun]_vars

\* 9 paragraphs whose level 2 is one chunk of three short paragraphs
DocTail == MkText(<<<<70>>, <<25>>, <<25>>, <<30>>, <<125>>, <<130>>, <<125>>,
                    <<95>>, <<75>>>>)

TailScenarios == Scenarios \cup {<<DocTail, "clean">>}

InitTail ==
    /\ IdleFn
    /\ NoProcess
    /\ \E sc \in TailScenarios : EmptyDb(sc[1]) /\ adapter = sc[2]

\* one server process running the documents of TailScenarios
SpecTail == InitTail /\ [][NextRun]_vars

-----------------------------------------------------------------------------
(* The start endpoint with its suspension points: the handler awaits the   *)
(* reads of lines 24-41 and the writes of lines 44-53, and requests served *)
(* meanwhile run in between                                                *)

\* lines 24-41: the project is not processing and no job is running or
\* processing; a request that fails a check is answered 400 and changes nothing
CheckStart(p) ==
    /\ up[p]
    /\ p \notin starting
    /\ nextJob <= MaxJobs
    /\ project.status # "processing"
    /\ \A j \in JobIds : jobs[j].status \notin InFlightStatuses
    /\ starting' = starting \cup {p}
    /\ UNCHANGED <<fnVars, dbVars, up, active, lock, tasks, adapter, crashes>>

\* lines 44-57: the deletes, the new job and the commit are one transaction;
\* the background task starts when the response has been sent
WriteStart(p) ==
    /\ p \in starting
    /\ nextJob <= MaxJobs
    /\ chapters' = [l \in Levels |-> NoChapter]
    /\ jobs' = [j \in JobIds |-> IF j = nextJob THEN NewJob ELSE NoJob]
    /\ project' = [project EXCEPT !.vocabulary = <<>>, !.status = "processing"]
    /\ nextJob' = nextJob + 1
    /\ starting' = starting \ {p}
    /\ Guarded(<<p, nextJob, "start">>)
    /\ UNCHANGED <<fnVars, up, adapter, crashes>>

\* both server processes have started on a database without jobs
InitStart ==
    /\ IdleFn
    /\ \E sc \in Scenarios : EmptyDb(sc[1]) /\ adapter = sc[2]
    /\ up = [p \in Procs |-> TRUE]
    /\ active = [p \in Procs |-> {}]
    /\ lock = {}
    /\ tasks = [t \in TaskIds |-> NoTask]
    /\ starting = {}
    /\ crashes = 0

NextStart ==
    \/ \E p \in Procs : CheckStart(p)
    \/ \E p \in Procs : WriteStart(p)
    \/ \E t \in TaskIds : RunStep(t)
    \/ \E t \in TaskIds : Fault(t)

SpecStart == InitStart /\ [][NextStart]_vars

-----------------------------------------------------------------------------
(* Progress: no process crashes, and the event loop of a process that has *)
(* a coroutine able to continue (an adapter call that returns, a commit,   *)
(* a flock attempt that finds the lock free) lets one of them continue     *)

NextLive ==
    \/ \E p \in Procs : Startup(p)
    \/ \E p \in Procs : StartTransformation(p)
    \/ \E t \in TaskIds : RunStep(t)
    \/ \E t \in TaskIds : Fault(t)

\* a step of a coroutine of process p
LoopStep(p) == \E t \in TaskIds : ProcOf(t) = p /\ RunStep(t)

SpecLive == Init /\ [][NextLive]_vars /\ \A p \in Procs : WF_vars(LoopStep(p))

-----------------------------------------------------------------------------
(* Properties of the orchestration *)

\* the positions between lock acquisition and release
RunPcs == TryPcs \cup {"handler", "release"}

Running == {t \in TaskIds : tasks[t].pc \in RunPcs}

Waiting == {t \in TaskIds : tasks[t].pc = "acquire"}

C2_TerminalStatusIsFinal ==
    [][\A j \in JobIds :
          jobs[j].status \in TerminalStatuses =>
              jobs'[j].status \in {jobs[j].status, "absent"}]_vars

CompletedCount == Cardinality({l \in Levels : chapters[l].status = "completed"})

\* C3: whenever a job is completed there are exactly the chapters 0..7, each
\* completed and carrying its own level, and completed_chapters =
\* total_chapters = 8.
C3_CompletedJobHasEightChapters ==
    \A j \in JobIds :
        jobs[j].status = "completed" =>
            /\ \A l \in Levels : /\ chapters[l].status = "completed"
                                 /\ chapters[l].level = l
            /\ jobs[j].completed = 8
            /\ jobs[j].total = 8

\* a completed job of the long document, whose last chapter has content
C3_Witness ==
    \E j \in JobIds :
        /\ jobs[j].status = "completed"
        /\ chapters[7].status = "completed"
        /\ chapters[7].content # <<>>

C5_CounterEqualsCompleted ==
    \A j \in JobIds :
        jobs[j].status # "absent" => jobs[j].completed = CompletedCount

\* the positions from the counter reset of line 673 to the end of the level loop
CountedPcs == {"level", "add_chapter", "empty_done", "call1", "call2", "finalize",
               "fail_chapter", "fail_job", "finish"}

\* what the commits of run_transformation do keep: from the counter reset that
\* follows chapter 0 to the end of the run, completed_chapters equals the
\* number of completed chapters, except between the commit that completes a
\* level's chapter and the commit that advances the counter, where it is one
\* less; a completed job, and a job failed at a level, have equal values.
CounterLagsByAtMostOne ==
    /\ \A t \in TaskIds :
          HasJob(t) =>
              /\ tasks[t].pc \in CountedPcs => jobs[JobOf(t)].completed = CompletedCount
              /\ tasks[t].pc = "count" => jobs[JobOf(t)].completed + 1 = CompletedCount
    /\ \A j \in JobIds :
          (\/ jobs[j].status = "completed"
           \/ jobs[j].status = "failed" /\ jobs[j].error = "level")
          => jobs[j].completed = CompletedCount

\* a level's chapter is completed and the counter has not been advanced yet
CounterLags ==
    \E t \in TaskIds :
        /\ tasks[t].pc = "count"
        /\ HasJob(t)
        /\ Loc(t).segIdx > 0
        /\ jobs[JobOf(t)].completed + 1 = CompletedCount

\* one run from the first statement to the last with an adapter that answers
\* every call: the calls of one level, then the levels in order
RECURSIVE CallsOfLevel(_, _, _)
CallsOfLevel(loc, level, kind) ==
    IF loc.mode = "done" THEN loc
    ELSE LET first == Respond(kind, loc.inp, level, FALSE, loc.vocab)
             result == IF RomanizationIssues(first)
                       THEN Respond(kind, loc.inp, level, TRUE, loc.vocab)
                       ELSE first
         IN  CallsOfLevel(AfterResult(loc, result, level), level, kind)

RECURSIVE LevelsFrom(_, _, _, _, _)
LevelsFrom(segs, k, vocab, chs, kind) ==
    IF k > Len(segs) THEN [chapters |-> chs, vocabulary |-> vocab]
    ELSE LET seg == segs[k]
             loc == IF seg.paras = <<>>
                    THEN [EmptyLoc EXCEPT !.vocab = vocab]
                    ELSE CallsOfLevel(
                             EnterChunk([EmptyLoc EXCEPT
                                            !.vocab = vocab,
                                            !.chunks = ChunkParagraphs(seg.paras)], 1),
                             seg.level, kind)
             ch == [status |-> "completed", level |-> seg.level, source |-> seg.paras,
                    content |-> loc.chParas,
                    footnotes |-> IF seg.paras = <<>> THEN <<>>
                                  ELSE EnrichFootnotes(loc.chFoot, loc.vocab)]
         IN  LevelsFrom(segs, k + 1, loc.vocab, [chs EXCEPT ![seg.level] = ch], kind)

\* the persisted chapters and vocabulary one uninterrupted run leaves behind
UninterruptedRun(text, vocab0, kind) ==
    LevelsFrom(PlanSegments(text), 1, vocab0,
               [l \in Levels |->
                   IF l = 0
                   THEN [status |-> "completed", level |-> 0, source |-> text,
                         content |-> text, footnotes |-> <<>>]
                   ELSE NoChapter],
               kind)

\* C6: with a deterministic adapter and an unchanged source text, a run that
\* is invoked again for the same document and job after an earlier run was
\* interrupted at any step, and that ends with every adapter call answered and
\* without an exception of its environment, leaves the persisted state one
\* uninterrupted run leaves: the same 8 chapters (partition, content,
\* footnotes), the same vocabulary, the same job counters; nothing the
\* interrupted run wrote survives.
C6_RerunEqualsUninterruptedRun ==
    \A t \in TaskIds :
        (/\ tasks[t].pc = "release"
         /\ tasks[t].clean
         /\ ~tasks[t].retryNone
         /\ HasJob(t))
        => LET once == UninterruptedRun(project.text, tasks[t].vocab0, adapter)
               job == jobs[JobOf(t)]
           IN  /\ job.status = "completed"
               /\ chapters = once.chapters
               /\ project.vocabulary = once.vocabulary
               /\ <<job.total, job.completed, job.current>> = <<8, 8, 8>>

\* a run rescheduled by recovery after a crash has completed the job of the
\* long document
C6_Witness ==
    \E t \in TaskIds :
        /\ t[3] = "recovery"
        /\ tasks[t].pc = "release"
        /\ tasks[t].clean
        /\ ~tasks[t].retryNone
        /\ crashes > 0
        /\ jobs[JobOf(t)].status = "completed"
        /\ project.text = DocLong
        /\ project.vocabulary # <<>>

\* C7: when a process starts, recover_incomplete_jobs reschedules through the
\* guarded orchestrator every job that is neither completed nor failed, and
\* no completed or failed job.
C7_RecoveryReschedulesInFlightOnly ==
    [][\A p \in Procs :
          (~up[p] /\ up'[p]) =>
              \A j \in JobIds :
                  (jobs[j].status \notin TerminalStatuses \cup {"absent"})
                  <=> (/\ tasks'[<<p, j, "recovery">>].pc \in {"begin", "acquire"}
                       /\ j \in active'[p])]_vars

\* a restarted process has rescheduled a job that was created and never begun
C7_Witness ==
    \E p \in Procs, j \in JobIds :
        /\ tasks[<<p, j, "recovery">>].pc = "begin"
        /\ jobs[j].status = "running"

\* a further invocation of run_transformation_guarded in a process whose
\* registry holds the job id (a second create_task for the same job)
Reinvoke(p, j) ==
    /\ up[p]
    /\ j \in active[p]
    /\ \A u \in TaskIds : tasks[u] # ReturnedTask
    /\ Guarded(<<p, j, "extra">>)
    /\ UNCHANGED <<fnVars, starting, dbVars, up, adapter, crashes>>

\* the steps of processes that stay up, and the further invocation
NextGuard ==
    \/ \E p \in Procs : Startup(p)
    \/ \E p \in Procs : StartTransformation(p)
    \/ \E t \in TaskIds : RunStep(t)
    \/ \E t \in TaskIds : Fault(t)
    \/ \E p \in Procs, j \in JobIds : Reinvoke(p, j)

InitGuard ==
    /\ IdleFn
    /\ NoProcess
    /\ EmptyDb(DocSmall)
    /\ adapter = "leaky"

SpecGuard == InitGuard /\ [][NextGuard]_vars

\* the job ids of the invocations of process p that have not returned
InFlight(p) == {JobOf(t) : t \in {u \in TaskIds : ProcOf(u) = p /\ Live(u)}}

\* C8: an invocation of run_transformation_guarded for a job id that is in the
\* registry of its process returns without starting a run and without changing
\* a chapter, the job, the project, the lock or the registry; and the registry
\* of a process holds exactly the job ids of its invocations in flight, so the
\* id is removed on every exit path.
C8_RegistryGuardsAndIsExact ==
    /\ [](\A p \in Procs : active[p] = InFlight(p))
    /\ [][\A p \in Procs, j \in JobIds :
             (/\ j \in active[p]
              /\ tasks[<<p, j, "extra">>] = NoTask
              /\ tasks'[<<p, j, "extra">>] # NoTask)
             => /\ tasks'[<<p, j, "extra">>] = ReturnedTask
                /\ UNCHANGED <<dbVars, active, lock>>
                /\ \A u \in TaskIds : u # <<p, j, "extra">> => tasks'[u] = tasks[u]]_vars

\* a second invocation has returned while the first is inside an adapter call
C8_Witness ==
    \E p \in Procs, j \in JobIds :
        /\ tasks[<<p, j, "extra">>] = ReturnedTask
        /\ j \in active[p]
        /\ \E o \in {"start", "recovery"} : tasks[<<p, j, o>>].pc = "call1"

\* C10: every text submitted to the adapter (a whole chunk, a sentence batch,
\* the resubmission of the quality retry) has at most 900 words.
C10_CallInputWithinLimit ==
    \A t \in TaskIds :
        tasks[t].pc \in {"call1", "call2"} =>
            WordCountAll(Loc(t).inp) <= MAX_CALL_WORDS

\* a batch of exactly 900 words cut from a longer sentence is submitted
C10_Witness ==
    \E t \in TaskIds :
        /\ tasks[t].pc = "call1"
        /\ Loc(t).mode = "batch"
        /\ WordCountAll(Loc(t).inp) = MAX_CALL_WORDS

\* C12: a vocabulary entry is never overwritten or removed during a run: the
\* tracker after a step of the run begins with the tracker before it, so an
\* entry keeps its term, translation and first-introduced level when a later
\* call introduces the same key with another translation; the footnotes a
\* finalization writes carry the data of the entry of their key, which is the
\* translation given at the level that first introduced it.
C12_FirstIntroductionWins ==
    [][\A t \in TaskIds :
          /\ (tasks[t].pc \in TryPcs /\ tasks'[t].pc \in TryPcs \cup {"release"}) =>
                /\ Len(tasks'[t].loc.vocab) >= Len(tasks[t].loc.vocab)
                /\ SubSeq(tasks'[t].loc.vocab, 1, Len(tasks[t].loc.vocab)) = tasks[t].loc.vocab
          /\ (tasks[t].pc = "finalize" /\ tasks'[t].pc = "count") =>
                \A i \in 1..Len(chapters'[LevelOf(t)].footnotes) :
                    LET ft == chapters'[LevelOf(t)].footnotes[i]
                        key == LowerKey(ft.term)
                    IN  /\ key \in VocabKeys(Loc(t).vocab)
                        /\ ft.translation = VocabEntry(Loc(t).vocab, key).translation
                        /\ ft.translation.lvl = VocabEntry(Loc(t).vocab, key).first_chapter
      ]_vars

\* a completed chapter of level 3 or higher has a footnote whose term was
\* introduced again by the call of its own level and that carries the
\* translation of level 1
C12_Witness ==
    \E l \in 3..NumLevels :
        /\ chapters[l].status = "completed"
        /\ \E i \in 1..Len(chapters[l].footnotes) :
              chapters[l].footnotes[i].translation = ServiceTranslation(1)

\* the position of a sentence piece in the source text
SrcPos(s) == <<s.id[1], s.id[2], s.off>>

PosBefore(a, b) ==
    \/ a[1] < b[1]
    \/ a[1] = b[1] /\ a[2] < b[2]
    \/ a[1] = b[1] /\ a[2] = b[2] /\ a[3] < b[3]

FirstPos(inp) == SrcPos(inp[1][1])

LastPos(inp) == SrcPos(inp[Len(inp)][Len(inp[Len(inp)])])

\* the step of task t in which a call site's call (or its quality retry)
\* returns and the next call of the level is issued
NextCallIssued(t) ==
    /\ tasks[t].pc \in {"call1", "call2"}
    /\ tasks'[t].pc = "call1"
    /\ tasks'[t] # tasks[t]

\* C13: levels are processed strictly 1..7 and the chunks of a level in source
\* order.  After every step a chapter row of level k exists (processing,
\* failed or completed) only if the chapters of all lower levels are
\* completed; a run takes the
\* levels one by one; a call is issued only at the start of a level or in the
\* step in which the previous call, or its quality retry, returned; its input
\* lies behind the previous input in the source, and by then the tracker
\* holds the terms of the previous result, the chapter text its paragraphs and
\* the continuity tail ends with its last paragraph.
C13_LevelsAndChunksInOrder ==
    [][/\ \A l \in 1..NumLevels :
             chapters'[l].status # "absent" =>
                \A m \in 0..(l - 1) : chapters'[m].status = "completed"
       /\ \A t \in TaskIds :
             /\ (tasks[t].pc \in TryPcs /\ tasks'[t].pc \in TryPcs
                    /\ tasks'[t].loc.segIdx # tasks[t].loc.segIdx) =>
                   /\ tasks[t].pc = "count"
                   /\ tasks'[t].loc.segIdx = tasks[t].loc.segIdx + 1
             /\ (tasks[t].pc \in TryPcs /\ tasks'[t].pc = "call1"
                    /\ tasks'[t].loc.inp # tasks[t].loc.inp) =>
                   tasks[t].pc \in {"add_chapter", "call1", "call2"}
             /\ NextCallIssued(t) =>
                   LET inp == tasks[t].loc.inp
                       loc == tasks'[t].loc
                       out == IF loc.mode = "batch" /\ loc.bi > 1
                              THEN loc.parts[Len(loc.parts)]
                              ELSE loc.chParas[Len(loc.chParas)]
                   IN  /\ PosBefore(LastPos(inp), FirstPos(loc.inp))
                       /\ \A i \in 1..Len(inp) :
                             LowerKey(TermOf(inp[i])) \in VocabKeys(loc.vocab)
                       /\ tasks[t].loc.mode \in {"chunk", "para"} =>
                             /\ Len(loc.chParas) >= Len(tasks[t].loc.chParas) + Len(inp)
                             /\ \A i \in 1..Len(inp) :
                                   loc.chParas[Len(tasks[t].loc.chParas) + i][1].src = inp[i]
                       /\ loc.tail # <<>>
                       /\ loc.tail[Len(loc.tail)].p.src = inp[Len(inp)]
      ]_vars

\* the second chunk of a level is submitted after the first was processed
C13_Witness ==
    \E t \in TaskIds :
        /\ tasks[t].pc = "call1"
        /\ Loc(t).mode = "chunk"
        /\ Loc(t).ci = 2
        /\ Loc(t).chParas # <<>>
        /\ Loc(t).tail # <<>>
        /\ Loc(t).tail[Len(Loc(t).tail)].p.src = Loc(t).chunks[1][Len(Loc(t).chunks[1])]

\* task t takes a step that is not an exception, a crash or the failure exit
Proceeds(t) ==
    /\ tasks'[t] # tasks[t]
    /\ tasks'[t].pc \in {"call1", "call2", "finalize"}

\* C14: at most one corrective retry per input text.  The corrective call is
\* issued exactly when the first result of the input has a violation, and it
\* resubmits the same input; when the corrective call has returned the run
\* processes a result (the retry's, whatever it contains, or the first when
\* the retry returned None) and goes on to another input or to the end of the
\* level, never to a further call for the same input.
C14_AtMostOneCorrectiveRetry ==
    [][\A t \in TaskIds :
          /\ (tasks[t].pc = "call1" /\ Proceeds(t)) =>
                LET first == Respond(adapter, Loc(t).inp, LevelOf(t), FALSE, Loc(t).vocab)
                IN  IF RomanizationIssues(first)
                    THEN /\ tasks'[t].pc = "call2"
                         /\ tasks'[t].loc.inp = Loc(t).inp
                         /\ tasks'[t].loc.first = first
                    ELSE /\ tasks'[t].pc # "call2"
                         /\ tasks'[t].loc.inp # Loc(t).inp
          /\ (tasks[t].pc = "call2" /\ Proceeds(t)) =>
                /\ tasks'[t].pc # "call2"
                /\ tasks'[t].loc.inp # Loc(t).inp
                /\ LET loc == tasks'[t].loc
                       out == IF Loc(t).mode = "batch" THEN loc.chParas[Loc(t).paraIndex + 1]
                              ELSE loc.chParas[Len(Loc(t).chParas) + Len(Loc(t).inp)]
                   IN  /\ out # <<>>
                       /\ out[Len(out)].src = Loc(t).inp[Len(Loc(t).inp)]
                       /\ out[Len(out)].hinted = ~tasks'[t].retryNone
          /\ (tasks[t].pc # "call2" /\ tasks'[t].pc = "call2") => tasks[t].pc = "call1"
      ]_vars

\* a corrective retry whose result still has the violation was accepted: the
\* chapter of the level is completed with the retry's text
C14_Witness ==
    \E l \in StubbornLevels :
        /\ adapter = "leaky"
        /\ chapters[l].status = "completed"
        /\ \E i \in 1..Len(chapters[l].content) :
              /\ chapters[l].content[i] # <<>>
              /\ chapters[l].content[i][1].hinted
              /\ RomanizationIssues(Respond(adapter, <<chapters[l].content[i][1].src>>, l,
                                            TRUE, <<>>))

\* ---------------------------------------------------------------------------
\* the run returns: lines 852-860 after a failed call, 872-878 after the last level
RunReturns(t) ==
    /\ tasks[t].pc \in {"fail_job", "finish"}
    /\ tasks'[t].pc = "release"

\* C19: the project's stored vocabulary is written only at run end: while a run
\* is between its first commit and its end the stored vocabulary equals the
\* value the run loaded (line 639), and the step by which the run returns
\* (lines 852-860 after a failed call, lines 872-878 after the last level)
\* leaves the stored vocabulary equal to the run's vocabulary tracker.
C19_VocabularyFlushedAtRunEnd ==
    [][\A t \in TaskIds :
          /\ (tasks'[t].pc \in TryPcs \ {"begin"})
                => project'.vocabulary = tasks'[t].vocab0
          /\ RunReturns(t) => project'.vocabulary = Loc(t).vocab]_vars

\* the text a run has generated so far: the chapters of the levels done, the
\* paragraphs collected for the level at hand, and the parts of the paragraph
\* being stitched
RECURSIVE ChaptersText(_, _, _)
ChaptersText(chs, levels, l) ==
    IF l > NumLevels THEN <<>>
    ELSE (IF l \in levels /\ chs[l].status = "completed"
          THEN Flatten(chs[l].content) ELSE <<>>) \o ChaptersText(chs, levels, l + 1)

GeneratedOf(loc, chs) ==
    ChaptersText(chs, {loc.segs[i].level : i \in 1..loc.segIdx}, 1)
        \o Flatten(loc.chParas)
        \o (IF loc.mode = "batch" THEN Flatten(loc.parts) ELSE <<>>)

GeneratedSoFar(t) == GeneratedOf(Loc(t), chapters)

AtCall(t) == tasks[t].pc \in {"call1", "call2"}

IsSuffixOfGenerated(t) ==
    Loc(t).tail = LastWords(WordsOf(GeneratedSoFar(t)), SpanWords(Loc(t).tail))

\* the pieces of a call's input are pieces of the source paragraphs of the level
InputIsSource(t) ==
    \A i \in 1..Len(Loc(t).inp) : \A j \in 1..Len(Loc(t).inp[i]) :
        \E p \in 1..Len(SegParas(t)) : \E q \in 1..Len(SegParas(t)[p]) :
            LET piece == Loc(t).inp[i][j]
                src == SegParas(t)[p][q]
            IN  /\ piece.id = src.id
                /\ piece.off >= src.off
                /\ piece.off + piece.w <= src.off + src.w

\* the tail is empty before the first level, and at a call it holds at most
\* 140 words while the input of the call is source text
TailBounded(t) ==
    /\ tasks[t].pc \in {"delete", "chapter0", "plan"} => Loc(t).tail = <<>>
    /\ AtCall(t) =>
          /\ SpanWords(Loc(t).tail) <= CONTEXT_TAIL_WORDS
          /\ InputIsSource(t)

\* C20 as stated: at every adapter call the continuity tail holds at most 140
\* words and is a suffix of the text generated so far in the run; it is empty
\* before the first level of a run, and the input of a call is source text only.
C20_TailIsSuffixOfGenerated ==
    \A t \in TaskIds :
        /\ TailBounded(t)
        /\ AtCall(t) => IsSuffixOfGenerated(t)

\* a call of the run has been answered and its result processed
ResultProcessed(t) ==
    /\ AtCall(t)
    /\ tasks'[t].pc \in {"call1", "finalize"}
    /\ tasks'[t] # tasks[t]

\* the non-empty paragraphs the step added to the paragraphs of the chapter
AddedParas(t) ==
    SelectSeq(SubSeq(tasks'[t].loc.chParas, Len(Loc(t).chParas) + 1,
                     Len(tasks'[t].loc.chParas)),
              LAMBDA para : para # <<>>)

\* the pieces the step added to the generated text
AddedText(t) ==
    SubSeq(GeneratedOf(tasks'[t].loc, chapters'), Len(GeneratedSoFar(t)) + 1,
           Len(GeneratedOf(tasks'[t].loc, chapters')))

\* what the update appends: the last two paragraphs of a whole-chunk result,
\* the last paragraph of a per-paragraph result, the used paragraph of a
\* sentence-batch result
AppendedToTail(t) ==
    IF Loc(t).mode = "chunk" THEN LastTwoJoined(AddedParas(t))
    ELSE IF Loc(t).mode = "para"
         THEN (IF AddedParas(t) = <<>> THEN <<>> ELSE AddedParas(t)[Len(AddedParas(t))])
         ELSE AddedText(t)

\* C20 amended: at every adapter call the tail holds at most 140 words, it is
\* empty before the first level of a run, and the input of a call is source
\* text only; when a result has been processed the generated text has grown
\* at its end, and the tail is the last 140 words of the tail before followed
\* by the text the update appends, which is the end of the generated text.
C20_TailIsLastWordsOfAppended ==
    [][\A t \in TaskIds :
          /\ TailBounded(t)'
          /\ ResultProcessed(t) =>
                /\ SubSeq(GeneratedOf(tasks'[t].loc, chapters'), 1, Len(GeneratedSoFar(t)))
                      = GeneratedSoFar(t)
                /\ tasks'[t].loc.tail
                      = LastWords(Loc(t).tail \o WordsOf(AppendedToTail(t)), CONTEXT_TAIL_WORDS)
                /\ WordsOf(AppendedToTail(t))
                      = LastWords(WordsOf(AddedText(t)), SpanWords(WordsOf(AppendedToTail(t))))
      ]_vars

\* at a call of a level after the first the tail holds words of two levels
\* and is not a suffix of the generated text
C20_Witness ==
    \E t \in TaskIds :
        /\ AtCall(t)
        /\ ~IsSuffixOfGenerated(t)
        /\ \E i, j \in 1..Len(Loc(t).tail) : Loc(t).tail[i].p.lvl # Loc(t).tail[j].p.lvl

\* a step of the run of invocation t that changes a row of the database
Mutates(t) ==
    /\ tasks[t].pc \in RunPcs
    /\ tasks'[t] # tasks[t]
    /\ <<project, jobs, chapters>>' # <<project, jobs, chapters>>

C25_NoChapterInFlightAfterRun ==
    \A j \in JobIds :
        jobs[j].status \in TerminalStatuses =>
            \A l \in Levels : chapters[l].status \notin {"processing", "pending"}

\* the writes of a start request are committed
StartCommitted == nextJob' # nextJob

NonTerminalJobs == {j \in JobIds : jobs[j].status \in InFlightStatuses}

\* C26: a start request writes only when the project is not processing and
\* no job is running or processing; its writes delete all chapters and jobs of
\* the document, clear the stored vocabulary and create exactly one job; a
\* document never has more than one job that is running or processing.
C26_StartRejectedWhileProcessing ==
    [][/\ StartCommitted =>
            /\ project.status # "processing"
            /\ NonTerminalJobs = {}
            /\ \A l \in Levels : chapters'[l] = NoChapter
            /\ project'.vocabulary = <<>>
            /\ {j \in JobIds : jobs'[j] # NoJob} = {nextJob}
            /\ jobs'[nextJob] = NewJob
       /\ Cardinality(NonTerminalJobs') <= 1
      ]_vars

JobSettled(t) == ~HasJob(t) \/ jobs[JobOf(t)].status \in TerminalStatuses

\* no invocation waits at the lock or is inside its run, and no job is
\* pending or processing
Quiet ==
    /\ Waiting = {}
    /\ Running = {}
    /\ lock = {}
    /\ \A j \in JobIds : jobs[j].status \notin InFlightStatuses

\* C27: when adapter calls return and no process crashes, whatever waits at
\* the lock or runs comes to an end: every waiting invocation has acquired the
\* lock, every run has returned and released it, and every job is completed
\* or failed.
C27_RunsEndAndWaitersAcquire == (~Quiet) ~> Quiet

\* a recovery invocation waits at the lock while the run of the other
\* process is inside an adapter call
C27_Witness ==
    \E t, u \in TaskIds :
        /\ tasks[t].pc = "acquire"
        /\ tasks[u].pc = "call1"
        /\ ProcOf(t) # ProcOf(u)
        /\ HasJob(u)
        /\ jobs[JobOf(u)].status = "processing"

\* the positions of a run after the commit of line 673
AfterResetPcs == CountedPcs \cup {"count"}

CountersInRange(job) ==
    /\ job.total = 8
    /\ 1 <= job.completed
    /\ job.completed <= job.current
    /\ job.current <= job.total
    /\ job.current - job.completed <= 1

\* C28: from the commit that resets the counters of the job (total 8, current
\* 1, completed 1) to the end of the run, 1 <= completed_chapters <=
\* current_chapter <= total_chapters = 8 and current_chapter is at most one
\* ahead; no commit of the run lowers completed_chapters, and the exception
\* handler and the finally block leave the three counters as they are.
C28_CountersOrdered ==
    [][\A t \in TaskIds :
          (HasJob(t) /\ tasks'[t] # tasks[t] /\ jobs'[JobOf(t)].status # "absent") =>
              /\ (tasks[t].pc = "plan" /\ tasks'[t].pc = "level") =>
                    CountersInRange(jobs'[JobOf(t)])
              /\ tasks[t].pc \in AfterResetPcs =>
                    CountersInRange(jobs'[JobOf(t)])
              /\ tasks[t].pc \in AfterResetPcs =>
                    jobs'[JobOf(t)].completed >= jobs[JobOf(t)].completed
              /\ tasks[t].pc \in {"handler", "release"} =>
                    /\ jobs'[JobOf(t)].total = jobs[JobOf(t)].total
                    /\ jobs'[JobOf(t)].current = jobs[JobOf(t)].current
                    /\ jobs'[JobOf(t)].completed = jobs[JobOf(t)].completed]_vars

\* the run has committed the start of level 3 after counting two levels
C28_Witness ==
    \E t \in TaskIds :
        /\ HasJob(t)
        /\ tasks[t].pc \in AfterResetPcs
        /\ jobs[JobOf(t)].completed = 3
        /\ jobs[JobOf(t)].current = 4

\* C29: a corrective retry that returns no result leaves the first result in
\* force, processed as the result of the call site, and the loop goes on; the
\* chunk loop is left with chapter_failed only by a first call that returned
\* no result, and only then are the chapter and the job set failed for the level.
C29_RetryFailureKeepsFirstResult ==
    [][/\ \A t \in TaskIds :
             (tasks'[t] # tasks[t] /\ tasks'[t].pc # "none") =>
                /\ (tasks[t].pc = "call2" /\ tasks'[t].retryNone /\ ~tasks[t].retryNone) =>
                      /\ tasks'[t].pc \in {"call1", "finalize"}
                      /\ tasks'[t].loc = AfterResult(Loc(t), Loc(t).first, LevelOf(t))
                /\ (tasks'[t].pc = "fail_chapter" /\ tasks[t].pc # "fail_chapter") =>
                      /\ tasks[t].pc = "call1"
                      /\ tasks[t].clean
                      /\ ~tasks'[t].clean
       /\ (\E l \in Levels : chapters'[l].status = "failed" /\ chapters[l].status # "failed") =>
             \E t \in TaskIds : tasks[t].pc = "fail_chapter" /\ tasks'[t].pc = "fail_job"
       /\ \A j \in JobIds :
             (/\ jobs'[j].status = "failed" /\ jobs'[j].error = "level"
              /\ ~(jobs[j].status = "failed" /\ jobs[j].error = "level")) =>
                \E t \in TaskIds : tasks[t].pc = "fail_job" /\ JobOf(t) = j]_vars

\* the retry of a call site returned nothing and the run has completed its job
C29_Witness ==
    \E t \in TaskIds :
        /\ tasks[t].pc = "release"
        /\ tasks[t].retryNone
        /\ tasks[t].clean
        /\ HasJob(t)
        /\ jobs[JobOf(t)].status = "completed"

-----------------------------------------------------------------------------
(* Bounded source texts for the planner *)

MaxBlocks == 8

\* block shapes: the word counts of the sentences of a block
BlockShapes == {<<>>, <<3>>, <<1, 1, 5>>}

ShapeSeqs(n) == UNION {[1..k -> BlockShapes] : k \in 0..n}

\* 14 paragraphs of 50 words
DocFourteen == MkText([i \in 1..14 |-> <<50>>])

PlannerTexts == {MkText(s) : s \in ShapeSeqs(MaxBlocks)} \cup {DocFourteen}

InitPlanner ==
    /\ fnIn \in PlannerTexts
    /\ fnOut = <<>>
    /\ fnPc = "ready"
    /\ IdleSystem

ApplyPlanner ==
    /\ fnPc = "ready"
    /\ fnOut' = PlanSegments(fnIn)
    /\ fnPc' = "done"
    /\ UNCHANGED <<fnIn, dbVars, procVars>>

NextPlanner == ApplyPlanner

SpecPlanner == InitPlanner /\ [][NextPlanner]_vars

SegmentParas(segs) == Flatten([k \in 1..Len(segs) |-> segs[k].paras])

\* C9: for any source text the planner returns exactly 7 segments labelled
\* 1..7 in order whose paragraph lists concatenate, in level order, to the
\* input unit sequence (nothing dropped, duplicated or reordered).
C9_SevenSegmentsPartition ==
    fnPc = "done" =>
        /\ Len(fnOut) = 7
        /\ \A k \in 1..7 : fnOut[k].level = k
        /\ SegmentParas(fnOut) = SourceUnits(fnIn)

\* a text with fewer than 7 units after expansion, partitioned with empty segments
C9_Witness ==
    /\ fnPc = "done"
    /\ Len(fnOut) = 7
    /\ Len(SourceUnits(fnIn)) \in 1..6
    /\ fnOut[7].paras = <<>>
    /\ SegmentParas(fnOut) = SourceUnits(fnIn)

\* the six cut indices of a plan: the numbers of units before levels 2..7
CutsOf(segs) == [b \in 1..(NumLevels - 1) |-> Len(SegmentParas(SubSeq(segs, 1, b)))]

PreviousCut(cuts, b) == IF b = 1 THEN 0 ELSE cuts[b - 1]

\* the indices boundary b may take: above the previous cut, leaving one unit
\* for every later level
AdmissibleCuts(cuts, b, n) == (PreviousCut(cuts, b) + 1)..(n - (NumLevels - b))

\* C23: with at least 7 units the six cuts are strictly increasing and every
\* segment is non-empty; each cut is the admissible index whose cumulative
\* word count is closest to the weighted cumulative target, the smaller index
\* on ties; 14 paragraphs of 50 words give 7 non-empty levels of 14 paragraphs.
C23_CutsAreClosestAdmissible ==
    (fnPc = "done" /\ Len(SourceUnits(fnIn)) >= NumLevels) =>
        LET units == SourceUnits(fnIn)
            n == Len(units)
            pw == [i \in 1..n |-> WordCount(units[i])]
            cuts == CutsOf(fnOut)
        IN  /\ \A b \in 1..(NumLevels - 1) :
                  /\ PreviousCut(cuts, b) < cuts[b]
                  /\ cuts[b] \in AdmissibleCuts(cuts, b, n)
                  /\ \A i \in AdmissibleCuts(cuts, b, n) :
                        LET dCut == CutDistance(pw, LEVEL_SEGMENT_WEIGHTS, b, cuts[b])
                            dI == CutDistance(pw, LEVEL_SEGMENT_WEIGHTS, b, i)
                        IN  dCut < dI \/ (dCut = dI /\ cuts[b] <= i)
            /\ \A k \in 1..NumLevels : fnOut[k].paras # <<>>
            /\ fnIn = DocFourteen =>
                  SumSeq([k \in 1..NumLevels |-> Len(fnOut[k].paras)]) = 14

\* 14 paragraphs of 50 words: the targets 275 and 625 of boundaries 3 and 6 lie
\* midway between two cumulative counts and the smaller index is taken
C23_Witness ==
    /\ fnPc = "done"
    /\ fnIn = DocFourteen
    /\ CutsOf(fnOut) = <<1, 3, 5, 8, 11, 12>>
    /\ CutDistance([i \in 1..14 |-> 50], LEVEL_SEGMENT_WEIGHTS, 3, 5)
          = CutDistance([i \in 1..14 |-> 50], LEVEL_SEGMENT_WEIGHTS, 3, 6)

\* the units with at least two sentences
Splittable(units) == {i \in 1..Len(units) : Len(units[i]) >= 2}

\* the units with the unit at idx replaced by its halves, cut before the
\* middle sentence
Bisected(units, idx) ==
    LET mid == Len(units[idx]) \div 2
    IN  SubSeq(units, 1, idx - 1)
          \o <<SubSeq(units[idx], 1, mid), SubSeq(units[idx], mid + 1, Len(units[idx]))>>
          \o SubSeq(units, idx + 1, Len(units))

\* the longest unit of two or more sentences, the earliest of equal length
LongestSplittable(units) ==
    CHOOSE idx \in Splittable(units) :
        \A k \in Splittable(units) :
            \/ WordCount(units[k]) < WordCount(units[idx])
            \/ (WordCount(units[k]) = WordCount(units[idx]) /\ idx <= k)

\* the longest unit is bisected again and again until there are n units or
\* no unit has two sentences
RECURSIVE BisectedUntil(_, _)
BisectedUntil(units, n) ==
    IF Len(units) >= n \/ Splittable(units) = {} THEN units
    ELSE BisectedUntil(Bisected(units, LongestSplittable(units)), n)

\* C24: the expansion ends; 7 or more units are returned as they are; fewer
\* units are returned with the longest unit of two or more sentences, the
\* earliest of equal length, replaced by its two halves, again and again
\* until there are 7 units or no unit has two sentences; the sentences of
\* all units are those of the input in the same order.
C24_ExpansionBisectsLongest ==
    fnPc = "done" =>
        LET in == SplitIntoParagraphs(fnIn)
            out == SegmentParas(fnOut)
        IN  /\ Flatten(out) = Flatten(in)
            /\ \A i \in 1..Len(out) : out[i] # <<>>
            /\ Len(in) >= MinUnits => out = in
            /\ (Len(in) < MinUnits /\ Splittable(in) = {}) => out = in
            /\ Len(in) < MinUnits =>
                  /\ Len(out) <= MinUnits
                  /\ Len(out) = MinUnits \/ Splittable(out) = {}
            /\ out = BisectedUntil(in, MinUnits)

\* three paragraphs, the second and third of three sentences and 7 words:
\* the second is bisected first, then the third, then their halves of 6 words
C24_Witness ==
    /\ fnPc = "done"
    /\ fnIn = MkText(<<<<3>>, <<1, 1, 5>>, <<1, 1, 5>>>>)
    /\ Len(SegmentParas(fnOut)) = MinUnits
    /\ SegmentParas(fnOut)[1] = fnIn[1]
    /\ SegmentParas(fnOut)[2] = <<fnIn[2][1]>>

-----------------------------------------------------------------------------
(* Responses of any shape: what one call site and the finalization of the *)
(* chapter make of a response, for the three call sites                   *)

\* a generated text, and the text that is empty or white space
GenText(n) == <<[lvl |-> 0, src |-> MkBlock(n, <<5>>), hinted |-> FALSE, known |-> FALSE]>>

Casa == [k |-> 0, v |-> "lower"]

CasaUpper == [k |-> 0, v |-> "Upper"]

MesaNested == [k |-> 1, v |-> "nested"]

Blank == [k |-> 0, v |-> "blank"]

Five == [k |-> 2, v |-> "number"]

RefTokens == {Casa, CasaUpper, MesaNested, Blank, Five}

\* values of a paragraph's footnote_refs: missing, a list, a bare string
RefValues ==
    {Missing, ListOf(<<>>), Scalar(Casa), ListOf(<<Casa, CasaUpper>>),
     ListOf(<<CasaUpper, MesaNested>>)}
        \cup {ListOf(<<r>>) : r \in RefTokens}

ParaValues ==
    {ParaDict(GenText(1), refs) : refs \in RefValues}
        \cup {ParaStr(GenText(1)), ParaStr(<<>>),
              [kind |-> "other", text |-> <<>>, footnote_refs |-> Missing]}

SecondParaValues ==
    {ParaDict(GenText(2), ListOf(<<MesaNested>>)), ParaDict(<<>>, Missing), ParaStr(GenText(2))}

\* values of the paragraphs field
ParagraphsValues ==
    {Missing, ListOf(<<>>), Scalar(ParaStr(GenText(1))),
     Scalar(ParaDict(GenText(1), ListOf(<<Casa>>)))}
        \cup {ListOf(<<p>>) : p \in ParaValues}
        \cup {ListOf(<<p, q>>) : p \in ParaValues, q \in SecondParaValues}

TermValues ==
    {TermDict(Casa, ServiceTranslation(2), "noun"),
     TermDict(CasaUpper, ServiceTranslation(3), "verb"),
     TermDict(MesaNested, ServiceTranslation(2), "noun"),
     TermDict(Blank, ServiceTranslation(2), "noun"),
     TermDict(Five, ServiceTranslation(2), "noun"),
     TermStr(Casa),
     [kind |-> "other", term |-> Blank, translation |-> Unset, category |-> "unset"]}

\* values of the new_terms field: missing, a number, a list
NewTermsValues ==
    {Missing, NotIterable, ListOf(<<>>),
     ListOf(<<TermDict(Casa, ServiceTranslation(2), "noun"),
              TermDict(CasaUpper, ServiceTranslation(3), "verb")>>),
     ListOf(<<TermStr(Casa), TermDict(MesaNested, ServiceTranslation(2), "noun")>>)}
        \cup {ListOf(<<t>>) : t \in TermValues}

ResponseValues ==
    {ResultDict(p, n, FALSE) : p \in ParagraphsValues, n \in NewTermsValues}
        \cup {ResultStr(GenText(1), FALSE), ResultStr(<<>>, FALSE), ResultOther,
              ResultList(<<ParaStr(GenText(1)), ParaStr(<<>>),
                           ParaDict(GenText(2), ListOf(<<Casa>>))>>, FALSE)}

\* the tracker before the call: empty, or holding casa from level 1
KnownCasa ==
    <<[key |-> Casa, term |-> CasaUpper, translation |-> ServiceTranslation(1),
       category |-> "noun", first_chapter |-> 1]>>

VocabValues == {<<>>, KnownCasa}

CallSites == {"chunk", "para", "batch"}

\* the locals at a call site of level 2 whose chapter has one paragraph so
\* far; the call is the last of its segment
LocAtSite(site, vocab) ==
    LET para == MkBlock(9, <<40, 50>>)
        loc == [EmptyLoc EXCEPT !.vocab = vocab, !.chunks = <<<<para>>>>, !.ci = 1,
                                !.mode = site, !.inp = <<para>>,
                                !.chParas = <<GenText(0)>>]
    IN  IF site = "chunk" THEN loc
        ELSE IF site = "para" THEN [loc EXCEPT !.pi = 1]
             ELSE [loc EXCEPT !.pi = 1, !.bi = 1, !.batches = <<para>>,
                              !.paraIndex = 1, !.chParas = Append(@, <<>>)]

\* lines 756-767, 789-804 or 822-847, then lines 862-866
ProcessResponse(in) ==
    IF NewTermsRaise(in.result)
    THEN [raised |-> TRUE, vocab |-> in.vocab, paras |-> <<>>, footnotes |-> <<>>,
          new_terms |-> <<>>]
    ELSE LET loc == AfterResult(LocAtSite(in.site, in.vocab), in.result, in.level)
         IN  [raised |-> FALSE, vocab |-> loc.vocab, paras |-> loc.chParas,
              footnotes |-> EnrichFootnotes(loc.chFoot, loc.vocab),
              new_terms |-> EnsureNewTermsForRefs(in.result)]

InitResponse ==
    /\ fnIn \in [result : ResponseValues, vocab : VocabValues, site : CallSites,
                 level : {2}]
    /\ fnOut = <<>>
    /\ fnPc = "ready"
    /\ IdleSystem

ApplyResponse ==
    /\ fnPc = "ready"
    /\ fnOut' = ProcessResponse(fnIn)
    /\ fnPc' = "done"
    /\ UNCHANGED <<fnIn, dbVars, procVars>>

NextResponse == ApplyResponse

SpecResponse == InitResponse /\ [][NextResponse]_vars

\* C11: every footnote of a finalized chapter has a term whose lower-cased,
\* trimmed key is a key of the run's vocabulary tracker, at each of the call
\* sites and for every response, also one whose footnote references have no
\* new_terms entry.
C11_FootnotesResolve ==
    (fnPc = "done" /\ ~fnOut.raised) =>
        \A i \in 1..Len(fnOut.footnotes) :
            LowerKey(fnOut.footnotes[i].term) \in VocabKeys(fnOut.vocab)

\* a sentence-batch response whose reference has no new_terms entry: the
\* footnote resolves to the synthesized stub
C11_Witness ==
    /\ fnPc = "done"
    /\ fnIn.site = "batch"
    /\ fnIn.result.new_terms = Missing
    /\ \E i \in 1..Len(fnOut.footnotes) :
          /\ fnOut.footnotes[i].translation.kind = "raw"
          /\ LowerKey(fnOut.footnotes[i].term) \in VocabKeys(fnOut.vocab)

\* C16: a non-empty adapter response of any shape (a well-formed record, bare
\* text, a bare list, a record with missing or wrongly typed paragraphs,
\* footnote_refs or new_terms) is coerced into {paragraphs, new_terms}: its
\* processing ends without an exception, so that it makes no chunk, chapter
\* or job fail.
C16_AnyShapeIsCoerced ==
    fnPc = "done" => ~fnOut.raised

\* the keys of the footnote references of a response, as the code cleans them
RefKeysOf(paras) ==
    UNION {{LowerKey(CleanTermToken(paras[i].footnote_refs[r])) :
               r \in 1..Len(paras[i].footnote_refs)} : i \in 1..Len(paras)}
        \ {EmptyToken}

ResponseParas(in) == NormalizedParagraphs(CoerceTransformResult(in.result))

SuppliedTerms(in) == NormalizedNewTerms(CoerceTransformResult(in.result))

\* the keys of the references without a new_terms entry
MissingKeysOf(in) ==
    RefKeysOf(ResponseParas(in))
        \ {LowerKey(SuppliedTerms(in)[i].term) : i \in 1..Len(SuppliedTerms(in))}

\* the references in the paragraphs the call site keeps
KeptKeysOf(in) ==
    IF in.site = "batch"
    THEN RefKeysOf(SubSeq(ResponseParas(in), 1, Min(1, Len(ResponseParas(in)))))
    ELSE RefKeysOf(ResponseParas(in))

EntriesOfKey(terms, key) == {i \in 1..Len(terms) : LowerKey(terms[i].term) = key}

IsStub(t) == t.category = "other" /\ t.translation = RawTranslation(t.term)

\* one stub per missing key, no entry added for any other key
StubsSynthesized ==
    /\ Len(fnOut.new_terms) = Len(SuppliedTerms(fnIn)) + Cardinality(MissingKeysOf(fnIn))
    /\ SubSeq(fnOut.new_terms, 1, Len(SuppliedTerms(fnIn))) = SuppliedTerms(fnIn)
    /\ \A key \in MissingKeysOf(fnIn) :
          /\ Cardinality(EntriesOfKey(fnOut.new_terms, key)) = 1
          /\ \A i \in EntriesOfKey(fnOut.new_terms, key) : IsStub(fnOut.new_terms[i])

\* C17 as claimed: for every footnote reference whose key matches no
\* new_terms entry exactly one stub is synthesized (translation = the term,
\* category "other"), a reference with a matching entry gets no stub and
\* repeated occurrences yield one stub, so that the chapter's footnotes
\* contain that term with the stub data.
C17_StubDataInFootnotes ==
    (fnPc = "done" /\ ~fnOut.raised) =>
        /\ StubsSynthesized
        /\ \A key \in MissingKeysOf(fnIn) :
              /\ \E i \in 1..Len(fnOut.footnotes) : LowerKey(fnOut.footnotes[i].term) = key
              /\ \A i \in 1..Len(fnOut.footnotes) :
                    LowerKey(fnOut.footnotes[i].term) = key =>
                        /\ fnOut.footnotes[i].category = "other"
                        /\ fnOut.footnotes[i].translation.kind = "raw"

\* C17 as amended: the stubs are synthesized as claimed; the chapter's
\* footnotes contain the term of every such reference that lies in a paragraph
\* the call site keeps (of a sentence-batch response the first paragraph only),
\* with the stub's data when the tracker did not hold the key before the call
\* and with the data of the earlier entry when it did.
C17_StubOrEarlierEntryInFootnotes ==
    (fnPc = "done" /\ ~fnOut.raised) =>
        /\ StubsSynthesized
        /\ \A key \in MissingKeysOf(fnIn) \cap KeptKeysOf(fnIn) :
              \E i \in 1..Len(fnOut.footnotes) : LowerKey(fnOut.footnotes[i].term) = key
        /\ \A i \in 1..Len(fnOut.footnotes) :
              LET ft == fnOut.footnotes[i]
                  key == LowerKey(ft.term)
              IN  key \in MissingKeysOf(fnIn) =>
                     IF key \in VocabKeys(fnIn.vocab)
                     THEN /\ ft.translation = VocabEntry(fnIn.vocab, key).translation
                          /\ ft.category = VocabEntry(fnIn.vocab, key).category
                     ELSE \E j \in EntriesOfKey(fnOut.new_terms, key) :
                             /\ ft.translation = fnOut.new_terms[j].translation
                             /\ ft.category = "other"

\* a reference without an entry, twice in different spellings, whose key the
\* tracker holds from level 1: one stub, and footnotes with the earlier data
C17_Witness ==
    /\ fnPc = "done"
    /\ ~fnOut.raised
    /\ fnIn.vocab = KnownCasa
    /\ Casa \in MissingKeysOf(fnIn)
    /\ Cardinality(EntriesOfKey(fnOut.new_terms, Casa)) = 1
    /\ Cardinality({i \in 1..Len(fnOut.footnotes) :
                       /\ LowerKey(fnOut.footnotes[i].term) = Casa
                       /\ fnOut.footnotes[i].translation = ServiceTranslation(1)}) = 2

-----------------------------------------------------------------------------
(* transform_chunk (services/claude.py): the attempts of one call.  fnIn  *)
(* scripts what the service does at each request: "exception" (the client *)
(* cannot be built or the request raises), "no_block" (a response without *)
(* a submit_transformation block), "block" (a response with one).         *)

\* the default of the parameter retries, which every caller uses
Retries == 1

\* requests scripted per call, more than the code may issue
MaxScript == 4

AttemptOutcomes == {"exception", "no_block", "block"}

\* range(1 + retries) counts one attempt too many
AttemptRangeOneMore(retries) == 0..(retries + 1)

\* range(1 + retries)
AttemptRange(retries) == 0..retries

InitAdapter ==
    /\ fnIn \in [1..MaxScript -> AttemptOutcomes]
    /\ fnOut = [attempts |-> 0, result |-> "pending"]
    /\ fnPc = "ready"
    /\ IdleSystem

\* lines 120-139: one pass of the loop body.  The attempt returns the block's
\* input, or the loop goes on, or the loop is exhausted (line 139) or left by
\* the return of line 137.
Attempt(outcome) ==
    /\ fnPc = "ready"
    /\ fnOut.attempts \in AttemptRange(Retries)
    /\ fnIn[fnOut.attempts + 1] = outcome
    /\ LET attempt == fnOut.attempts
       IN  IF outcome = "block"
           THEN /\ fnOut' = [attempts |-> attempt + 1, result |-> "value"]
                /\ fnPc' = "done"
           ELSE IF outcome = "exception"
                THEN IF attempt < Retries
                     THEN /\ fnOut' = [fnOut EXCEPT !.attempts = attempt + 1]
                          /\ fnPc' = "ready"
                     ELSE /\ fnOut' = [attempts |-> attempt + 1, result |-> "none"]
                          /\ fnPc' = "done"
                ELSE IF attempt + 1 \in AttemptRange(Retries)
                     THEN /\ fnOut' = [fnOut EXCEPT !.attempts = attempt + 1]
                          /\ fnPc' = "ready"
                     ELSE /\ fnOut' = [attempts |-> attempt + 1, result |-> "none"]
                          /\ fnPc' = "done"
    /\ UNCHANGED <<fnIn, dbVars, procVars>>

NextAdapter ==
    \/ Attempt("block")
    \/ Attempt("exception")
    \/ Attempt("no_block")

SpecAdapter == InitAdapter /\ [][NextAdapter]_vars

\* C15: transform_chunk makes at most two attempts per call; it returns None
\* exactly when both attempts fail, by an exception or by a response without
\* the structured block, and otherwise the input of the first block received;
\* it ends with a return in every case and never makes a third attempt.
C15_TwoAttemptsThenNone ==
    /\ fnOut.attempts <= 2
    /\ fnPc = "ready" => /\ fnOut.attempts < 2
                         /\ fnOut.result = "pending"
                         /\ \A i \in 1..fnOut.attempts : fnIn[i] # "block"
    /\ fnPc = "done" =>
          /\ fnOut.result \in {"none", "value"}
          /\ fnOut.result = "none" <=> (fnIn[1] # "block" /\ fnIn[2] # "block")
          /\ fnOut.result = "none" => fnOut.attempts = 2
          /\ fnOut.result = "value" => /\ fnIn[fnOut.attempts] = "block"
                                       /\ \A i \in 1..(fnOut.attempts - 1) : fnIn[i] # "block"

\* a response without the block, then an exception: None after two attempts
\* although the third request would have succeeded
C15_Witness ==
    /\ fnPc = "done"
    /\ fnOut = [attempts |-> 2, result |-> "none"]
    /\ fnIn[1] = "no_block"
    /\ fnIn[2] = "exception"
    /\ fnIn[3] = "block"

-----------------------------------------------------------------------------
(* A paragraph above the call cap: its sentence batches, one call per     *)
(* batch, and the paragraph slot the outputs are stitched into            *)

\* sentences (word counts) of the paragraphs tried
LongParagraphShapes ==
    {<<500, 450, 30>>, <<1000>>, <<400, 400, 400, 400, 400>>, <<950, 30, 950>>,
     <<300, 1000, 300>>, <<900, 1>>, <<450, 450, 450>>, <<2000>>}

\* responses scripted per paragraph, one for each batch call that may occur
MaxBatchCalls == 5

\* the number of paragraphs a batch response contains
ResponseSizes == 0..2

\* a response to a batch with n paragraphs: the rendering of the batch first
BatchResponse(batch, n) ==
    LET rendered == ParaDict(<<[lvl |-> 6, src |-> batch, hinted |-> FALSE, known |-> FALSE]>>,
                             ListOf(<<TermOf(batch)>>))
        extra == ParaDict(GenText(0), ListOf(<<Casa>>))
    IN  ResultDict(ListOf(SubSeq(<<rendered, extra>>, 1, n)), Missing, FALSE)

\* the locals when the fallback path reaches the paragraph: the chapter has
\* one paragraph so far
LocBeforePara(para) ==
    [EmptyLoc EXCEPT !.chunks = <<<<para>>>>, !.ci = 1, !.chParas = <<GenText(0)>>]

InitBatch ==
    /\ fnIn \in [para : {MkBlock(1, sh) : sh \in LongParagraphShapes},
                 sizes : [1..MaxBatchCalls -> ResponseSizes]]
    /\ fnOut = <<>>
    /\ fnPc = "ready"
    /\ IdleSystem

\* lines 773-816: the paragraph is batched and the first batch submitted
StartParagraph ==
    /\ fnPc = "ready"
    /\ fnOut' = EnterPara(LocBeforePara(fnIn.para), 1, 1)
    /\ fnPc' = "calling"
    /\ UNCHANGED <<fnIn, dbVars, procVars>>

\* lines 817-847: a batch call returns; the next batch is submitted or the
\* parts are joined into the slot
BatchReturns ==
    /\ fnPc = "calling"
    /\ fnOut.bi <= MaxBatchCalls
    /\ LET result == BatchResponse(fnOut.inp[1], fnIn.sizes[fnOut.bi])
           loc == AfterResult(fnOut, result, 6)
       IN  /\ fnOut' = loc
           /\ fnPc' = IF loc.mode = "batch" THEN "calling" ELSE "done"
    /\ UNCHANGED <<fnIn, dbVars, procVars>>

NextBatch == StartParagraph \/ BatchReturns

SpecBatch == InitBatch /\ [][NextBatch]_vars

\* adjacent pieces of one sentence joined
RECURSIVE MergePieces(_)
MergePieces(text) ==
    IF Len(text) <= 1 THEN text
    ELSE LET a == text[1]
             b == text[2]
         IN  IF a.id = b.id /\ b.off = a.off + a.w
             THEN MergePieces(<<[a EXCEPT !.w = a.w + b.w]>> \o SubSeq(text, 3, Len(text)))
             ELSE <<a>> \o MergePieces(Tail(text))

\* the batches whose response has a paragraph, in order
RECURSIVE AnsweredBatches(_, _, _)
AnsweredBatches(batches, sizes, i) ==
    IF i > Len(batches) THEN <<>>
    ELSE (IF sizes[i] > 0 THEN <<batches[i]>> ELSE <<>>)
            \o AnsweredBatches(batches, sizes, i + 1)

\* C18: a paragraph of more than 900 words is split into batches of at most
\* 900 words whose concatenation is the paragraph's word sequence (at least 3
\* batches for 2,000 words); a batch ends inside a sentence only when that
\* sentence alone has more than 900 words.  One call is issued per batch, in
\* order, and the outputs are joined into exactly one paragraph slot at the
\* position the paragraph has in the chapter, whatever number of paragraphs a
\* batch response contains: the slot holds the first paragraphs of the
\* responses in batch order.
C18_BatchesStitchedIntoOneSlot ==
    fnPc \in {"calling", "done"} =>
        /\ WordCount(fnIn.para) > MAX_CALL_WORDS
        /\ \A b \in 1..Len(fnOut.batches) :
              /\ WordCount(fnOut.batches[b]) \in 1..MAX_CALL_WORDS
              /\ \A k \in 1..Len(fnOut.batches[b]) :
                    LET piece == fnOut.batches[b][k]
                    IN  \/ \E s \in 1..Len(fnIn.para) : fnIn.para[s] = piece
                        \/ \E s \in 1..Len(fnIn.para) :
                              /\ fnIn.para[s].id = piece.id
                              /\ fnIn.para[s].w > MAX_CALL_WORDS
        /\ MergePieces(Flatten(fnOut.batches)) = fnIn.para
        /\ WordCount(fnIn.para) >= 2000 => Len(fnOut.batches) >= 3
        /\ fnOut.paraIndex = 1
        /\ Len(fnOut.chParas) = 2
        /\ fnOut.chParas[1] = GenText(0)
        /\ fnPc = "calling" =>
              /\ fnOut.bi \in 1..Len(fnOut.batches)
              /\ fnOut.inp = <<fnOut.batches[fnOut.bi]>>
              /\ Len(fnOut.parts) =
                    Len(AnsweredBatches(SubSeq(fnOut.batches, 1, fnOut.bi - 1), fnIn.sizes, 1))
        /\ fnPc = "done" =>
              LET answered == AnsweredBatches(fnOut.batches, fnIn.sizes, 1)
                  slot == fnOut.chParas[2]
              IN  /\ Len(slot) = Len(answered)
                  /\ \A i \in 1..Len(slot) : slot[i].src = answered[i]

\* five sentences of 400 words: three batches; the second response has no
\* paragraph and the third has two, and the slot holds two renderings
C18_Witness ==
    /\ fnPc = "done"
    /\ WordCount(fnIn.para) = 2000
    /\ Len(fnOut.batches) = 3
    /\ fnIn.sizes[1] = 1
    /\ fnIn.sizes[2] = 0
    /\ fnIn.sizes[3] = 2
    /\ Len(fnOut.chParas) = 2
    /\ Len(fnOut.chParas[2]) = 2

-----------------------------------------------------------------------------
(* _chunk_paragraphs applied to the segments of two levels (line 704)     *)

MaxChunkParas == 4

\* the word counts of the paragraphs of a segment
ChunkerWords == {100, 150, 250, 300, 900, 1000}

ChunkerTexts ==
    UNION {{MkText([i \in 1..n |-> <<ws[i]>>]) : ws \in [1..n -> ChunkerWords]} :
              n \in 0..MaxChunkParas}

\* the paragraphs of the text up to the cut are the segment of level 1, the
\* others the segment of level 2
ChunkerSegments(in) ==
    <<[level |-> 1, paras |-> SubSeq(in.text, 1, in.cut)],
      [level |-> 2, paras |-> SubSeq(in.text, in.cut + 1, Len(in.text))]>>

InitChunker ==
    /\ \E text \in ChunkerTexts : \E cut \in 0..Len(text) :
          fnIn = [text |-> text, cut |-> cut]
    /\ fnOut = <<>>
    /\ fnPc = "ready"
    /\ IdleSystem

\* line 704 for each segment: seg_chunks = _chunk_paragraphs(seg_paras)
ApplyChunker ==
    /\ fnPc = "ready"
    /\ fnOut' = [i \in 1..2 |->
                    [level |-> ChunkerSegments(fnIn)[i].level,
                     chunks |-> ChunkParagraphs(ChunkerSegments(fnIn)[i].paras)]]
    /\ fnPc' = "done"
    /\ UNCHANGED <<fnIn, dbVars, procVars>>

NextChunker == ApplyChunker

SpecChunker == InitChunker /\ [][NextChunker]_vars

\* the block numbers of the paragraphs of the segment of a level
BlocksOfLevel(in, level) == IF level = 1 THEN 1..in.cut ELSE (in.cut + 1)..Len(in.text)

\* C22: the chunks of a segment are non-empty and concatenate in order to the
\* paragraphs of the segment, whole paragraphs of that level only; a chunk of
\* more than one paragraph has at most 250 words; a chunk after the first
\* begins with a paragraph that would have taken the chunk before it above 250
\* words, and no paragraph inside a chunk would have done so.
C22_ChunksPartitionSegment ==
    fnPc = "done" =>
        \A i \in 1..2 :
            LET chunks == fnOut[i].chunks
            IN  /\ Flatten(chunks) = ChunkerSegments(fnIn)[i].paras
                /\ \A c \in 1..Len(chunks) :
                      /\ chunks[c] # <<>>
                      /\ \A k \in 1..Len(chunks[c]) :
                            /\ chunks[c][k] \in {fnIn.text[b] : b \in BlocksOfLevel(fnIn, fnOut[i].level)}
                            /\ k > 1 => WordCountAll(SubSeq(chunks[c], 1, k - 1))
                                           + WordCount(chunks[c][k]) <= MAX_CHUNK_WORDS
                      /\ Len(chunks[c]) > 1 => WordCountAll(chunks[c]) <= MAX_CHUNK_WORDS
                      /\ c > 1 => WordCountAll(chunks[c - 1]) + WordCount(chunks[c][1])
                                     > MAX_CHUNK_WORDS

\* a segment of 100, 150, 100 and 1000 words: a chunk of two paragraphs with
\* exactly 250 words, then two chunks of one paragraph
C22_Witness ==
    /\ fnPc = "done"
    /\ fnIn.cut = 0
    /\ Len(fnOut[2].chunks) = 3
    /\ Len(fnOut[2].chunks[1]) = 2
    /\ WordCountAll(fnOut[2].chunks[1]) = MAX_CHUNK_WORDS
    /\ WordCount(fnOut[2].chunks[3][1]) > MAX_CALL_WORDS

\* the call site the chunk loop waits at first when it takes up the chunk
\* (lines 709-716 and 749)
SiteOfChunk(chunk) == EnterChunk([EmptyLoc EXCEPT !.chunks = <<chunk>>], 1)

\* the call site the fallback loop waits at first when it takes up paragraph
\* pi of the chunk (lines 773-817)
SiteOfPara(chunk, pi) == EnterPara([EmptyLoc EXCEPT !.chunks = <<chunk>>], 1, pi)

\* C30: a chunk of two or more paragraphs is sent whole in one call; a chunk
\* that takes the fallback path is one paragraph of more than 900 words, and
\* each paragraph the fallback loop takes up goes to the sentence batches: the
\* loop neither issues one call for the paragraph nor skips it as empty.
C30_FallbackOnlyForOneLongParagraph ==
    fnPc = "done" =>
        \A i \in 1..2 :
            \A c \in 1..Len(fnOut[i].chunks) :
                LET chunk == fnOut[i].chunks[c]
                IN  /\ Len(chunk) >= 2 =>
                          /\ SiteOfChunk(chunk).mode = "chunk"
                          /\ SiteOfChunk(chunk).inp = chunk
                    /\ SiteOfChunk(chunk).mode # "chunk" =>
                          /\ Len(chunk) = 1
                          /\ WordCount(chunk[1]) > MAX_CALL_WORDS
                          /\ \A pi \in 1..Len(chunk) :
                                /\ SiteOfPara(chunk, pi).mode = "batch"
                                /\ SiteOfPara(chunk, pi).pi = pi

\* a segment with a chunk of two paragraphs, a chunk of one paragraph of 900
\* words sent whole, and a chunk of one paragraph of 1000 words on the
\* fallback path
C30_Witness ==
    /\ fnPc = "done"
    /\ \E i \in 1..2 :
          \E a, b, c \in 1..Len(fnOut[i].chunks) :
              /\ Len(fnOut[i].chunks[a]) = 2
              /\ SiteOfChunk(fnOut[i].chunks[a]).mode = "chunk"
              /\ WordCountAll(fnOut[i].chunks[b]) = MAX_CALL_WORDS
              /\ SiteOfChunk(fnOut[i].chunks[b]).mode = "chunk"
              /\ SiteOfChunk(fnOut[i].chunks[c]).mode = "batch"

=============================================================================
